---- MODULE Spec2Model ----
(***************************************************************************)
(* Schema generation, persistence and staleness / auto-update advice of    *)
(* the Task Master schema generator                                        *)
(* (src/servers/schema-generation/schema-generator.mjs).                   *)
(*                                                                         *)
(* Conventions                                                             *)
(*   - confidences are percentages: 0.95 is 95, 0.5 is 50;                 *)
(*   - a file path is the sequence of its "/"-separated segments;          *)
(*   - a JavaScript array is a sequence, a Set is a sequence without       *)
(*     duplicates in insertion order (Array.from(set) keeps that order);   *)
(*   - the clock counts minutes; two readings of the same value are the    *)
(*     same instant (the same ISO timestamp). In the archive and race      *)
(*     specifications an instant is one value of the timestamp.            *)
(***************************************************************************)
EXTENDS Integers, Sequences, FiniteSets, TLC

VARIABLES
    taskType,               \* auto_update_check: the taskType argument
    changedFiles,           \* auto_update_check: the changedFiles argument
    updateRecommendation,   \* what shouldAutoUpdate returned (NoResult before the call)
    project,                \* the marker files of the project root
    detected,               \* outcome of detectFramework (NoResult before the call)
    sources,                \* the faults of the project's Laravel source tree
    clock,                  \* Date.now()
    current,                \* .taskmaster/schemas/current: file name -> content
    versions,               \* .taskmaster/schemas/versions: key -> (file name -> content)
    historyFile,            \* .taskmaster/schemas/history/changes.yml
    integrationLog,         \* .taskmaster/schemas/integration.log, one entry per line
    request,                \* the last call: its operation and arguments
    response,               \* what the last call returned (NoResult before any call)
    saveCalls,              \* the saveSchemas calls so far: history entry, returned or threw
    writers,                \* the saveSchemas calls in flight: writer -> its position and locals
    lastWriter,             \* for each file of current/, the writer that wrote it last
    tree,                   \* the directory tree given to scanDirectory
    scanned,                \* what scanDirectory returned (NoResult before the call)
    migrations,             \* database/migrations: its files in readdir order
    tableInfo,              \* what parseMigrationFile returned for one file of it
    tables,                 \* what scanLaravelMigrations returned
    routeContent,           \* the text of a routes file, as tokens
    routes,                 \* what parsePhpRoutes returned for it
    workflow                \* the task-completion workflow: position, locals, console

advisorVars == <<taskType, changedFiles, updateRecommendation>>

detectVars == <<project, detected>>

diskVars == <<current, versions, historyFile, integrationLog>>

callVars == <<request, response, saveCalls>>

raceVars == <<writers, lastWriter>>

scanVars == <<tree, scanned>>

parseVars == <<migrations, tableInfo, tables, routeContent, routes>>

vars == <<taskType, changedFiles, updateRecommendation, project, detected,
          sources, clock, current, versions, historyFile, integrationLog,
          request, response, saveCalls, writers, lastWriter, tree, scanned,
          migrations, tableInfo, tables, routeContent, routes, workflow>>

(***************************************************************************)
(* Bounds                                                                  *)
(***************************************************************************)
MaxFiles == 2       \* longest changedFiles list

MaxElapsed == 1     \* longest time between the start of a generation and its save

MaxClock == 5       \* last instant of the tool-call specification

MaxRuns == 2        \* generations of the tool-call specification

MaxGenRuns == 1     \* generations of the assembler specification

MaxSaves == 52      \* generations of the history specification

MaxArchiveRuns == 2 \* generations of the archive specification

MaxPause == 1       \* longest time between two generations of the archive specification

MaxRaceClock == 1   \* last instant of the race specification

MaxExcess == 1      \* file lengths of the scanner specification: up to this far from the cap

MaxStatements == 2  \* most Schema:: statements in one migration file

MaxRoutes == 2      \* most statements in a routes file, and in a route group

(***************************************************************************)
(* Helpers on sequences                                                    *)
(***************************************************************************)
Range(s) == {s[i] : i \in 1..Len(s)}

Max(a, b) == IF a >= b THEN a ELSE b

SeqsUpTo(S, n) == UNION {[1..k -> S] : k \in 0..n}

\* Set.add over a sequence of elements: insertion order, no duplicates
RECURSIVE AddAll(_, _)
AddAll(acc, xs) ==
    IF xs = <<>> THEN acc
    ELSE AddAll(IF Head(xs) \in Range(acc) THEN acc ELSE Append(acc, Head(xs)),
                Tail(xs))

(***************************************************************************)
(* Staleness / auto-update advisor: shouldAutoUpdate                       *)
(***************************************************************************)
SchemaNames == {"database", "api", "businessLogic", "componentArchitecture"}

\* the taskType enum of the auto_update_check tool
TaskTypes ==
    {"database", "migration", "model", "controller", "api", "route",
     "middleware", "service", "test", "config", "frontend", "other"}

\* task type -> {schemas, confidence}; "frontend" and "other" have no entry
schemaAffectingTasks ==
    [t \in TaskTypes \ {"frontend", "other"} |->
        CASE t = "database"   -> [schemas |-> <<"database">>, confidence |-> 90]
          [] t = "migration"  -> [schemas |-> <<"database">>, confidence |-> 95]
          [] t = "model"      -> [schemas |-> <<"database", "businessLogic">>, confidence |-> 80]
          [] t = "controller" -> [schemas |-> <<"api", "businessLogic">>, confidence |-> 80]
          [] t = "api"        -> [schemas |-> <<"api">>, confidence |-> 90]
          [] t = "route"      -> [schemas |-> <<"api">>, confidence |-> 90]
          [] t = "middleware" -> [schemas |-> <<"api", "businessLogic">>, confidence |-> 70]
          [] t = "service"    -> [schemas |-> <<"businessLogic">>, confidence |-> 60]
          [] t = "config"     -> [schemas |-> <<"componentArchitecture">>, confidence |-> 50]
          [] t = "test"       -> [schemas |-> <<>>, confidence |-> 10]]

\* The ordered rule list. A pattern /a\/b\// is the directory segments <<a, b>>
\* followed by a further segment; /composer\.json$/ is the last segment.
schemaAffectingFiles ==
    << [dirs |-> <<"database", "migrations">>, last |-> "",
        schemas |-> <<"database">>, confidence |-> 95],
       [dirs |-> <<"app", "Models">>, last |-> "",
        schemas |-> <<"database", "businessLogic">>, confidence |-> 80],
       [dirs |-> <<"app", "Http", "Controllers">>, last |-> "",
        schemas |-> <<"api", "businessLogic">>, confidence |-> 80],
       [dirs |-> <<"routes">>, last |-> "",
        schemas |-> <<"api">>, confidence |-> 90],
       [dirs |-> <<"app", "Http", "Middleware">>, last |-> "",
        schemas |-> <<"api", "businessLogic">>, confidence |-> 70],
       [dirs |-> <<"app", "Services">>, last |-> "",
        schemas |-> <<"businessLogic">>, confidence |-> 60],
       [dirs |-> <<>>, last |-> "composer.json",
        schemas |-> <<"componentArchitecture">>, confidence |-> 60],
       [dirs |-> <<"config">>, last |-> "",
        schemas |-> <<"componentArchitecture">>, confidence |-> 40] >>

\* filePattern.pattern.test(file): an unanchored search for the directory
\* segments followed by "/", or the "$"-anchored file name
PatternTest(rule, file) ==
    IF rule.last # ""
    THEN Len(file) > 0 /\ file[Len(file)] = rule.last
    ELSE \E i \in 1..Len(file) :
            /\ i + Len(rule.dirs) - 1 < Len(file)
            /\ \A k \in 1..Len(rule.dirs) : file[i + k - 1] = rule.dirs[k]

\* the changed files the model draws from
FilePaths ==
    { <<"database", "migrations", "2024_01_01_create_x.php">>,
      <<"app", "Models", "User.php">>,
      <<"app", "Http", "Controllers", "UserController.php">>,
      <<"routes", "web.php">>,
      <<"app", "Http", "Middleware", "Auth.php">>,
      <<"app", "Services", "Billing.php">>,
      <<"composer.json">>,
      <<"config", "app.php">>,
      <<"config", "routes", "extra.php">>,
      <<"README.md">> }

\* the accumulator of the "Check changed files" loops
EmptyEvidence == [maxConfidence |-> 0, allAffectedSchemas |-> <<>>, reasons |-> <<>>]

\* mutant: the confidence of the last match instead of the maximum
MatchStepLastWins(acc, file, rule) ==
    IF PatternTest(rule, file)
    THEN [maxConfidence      |-> rule.confidence,
          allAffectedSchemas |-> AddAll(acc.allAffectedSchemas, rule.schemas),
          reasons            |-> Append(acc.reasons,
                                        [file |-> file, affects |-> rule.schemas])]
    ELSE acc

\* mutant: the schemas of the last match instead of the union of all matches
MatchStepReplacesSchemas(acc, file, rule) ==
    IF PatternTest(rule, file)
    THEN [maxConfidence      |-> Max(acc.maxConfidence, rule.confidence),
          allAffectedSchemas |-> rule.schemas,
          reasons            |-> Append(acc.reasons,
                                        [file |-> file, affects |-> rule.schemas])]
    ELSE acc

\* one iteration of the inner loop: one file against one rule
MatchStep(acc, file, rule) ==
    IF PatternTest(rule, file)
    THEN [maxConfidence      |-> Max(acc.maxConfidence, rule.confidence),
          allAffectedSchemas |-> AddAll(acc.allAffectedSchemas, rule.schemas),
          reasons            |-> Append(acc.reasons,
                                        [file |-> file, affects |-> rule.schemas])]
    ELSE acc

\* for (const filePattern of schemaAffectingFiles), from rule r on
RECURSIVE RuleLoop(_, _, _)
RuleLoop(acc, file, r) ==
    IF r > Len(schemaAffectingFiles) THEN acc
    ELSE RuleLoop(MatchStep(acc, file, schemaAffectingFiles[r]), file, r + 1)

\* for (const file of changedFiles)
RECURSIVE FileLoop(_, _)
FileLoop(acc, files) ==
    IF files = <<>> THEN acc
    ELSE FileLoop(RuleLoop(acc, Head(files), 1), Tail(files))

\* updateRecommendation after "Check task type"
TaskRecommendation(t) ==
    IF t \in DOMAIN schemaAffectingTasks
    THEN [required        |-> schemaAffectingTasks[t].confidence > 50,
          reason          |-> [from |-> "task", taskType |-> t,
                               affects |-> schemaAffectingTasks[t].schemas],
          confidence      |-> schemaAffectingTasks[t].confidence,
          affectedSchemas |-> schemaAffectingTasks[t].schemas]
    ELSE [required        |-> FALSE,
          reason          |-> [from |-> "default"],
          confidence      |-> 0,
          affectedSchemas |-> <<>>]

\* mutant: a file-derived recommendation is always required
FileRecommendationAlwaysRequired(ev) ==
    [required        |-> TRUE,
     reason          |-> [from |-> "files", parts |-> ev.reasons],
     confidence      |-> ev.maxConfidence,
     affectedSchemas |-> ev.allAffectedSchemas]

\* the file-derived recommendation
FileRecommendation(ev) ==
    [required        |-> ev.maxConfidence > 50,
     reason          |-> [from |-> "files", parts |-> ev.reasons],
     confidence      |-> ev.maxConfidence,
     affectedSchemas |-> ev.allAffectedSchemas]

\* mutant: a tie lets the files win
ReplacesOnTie(ev, rec) == ev.maxConfidence >= rec.confidence

\* if (maxConfidence > updateRecommendation.confidence)
Replaces(ev, rec) == ev.maxConfidence > rec.confidence

shouldAutoUpdate(t, files) ==
    LET rec == TaskRecommendation(t)
    IN  IF Len(files) > 0
        THEN LET ev == FileLoop(EmptyEvidence, files)
             IN  IF Replaces(ev, rec) THEN FileRecommendation(ev) ELSE rec
        ELSE rec

\* the value of a result variable before its operation has run
NoResult == [pending |-> TRUE]

(***************************************************************************)
(* Outcomes of the async functions: a returned value or a thrown error     *)
(***************************************************************************)
Return(v) == [threw |-> FALSE, value |-> v]

Throw(m) == [threw |-> TRUE, message |-> m]

(***************************************************************************)
(* Framework detector: detectFramework                                     *)
(***************************************************************************)
\* composer.json: absent, present but not readable (fs.access succeeds,
\* fs.readFile fails), or readable. hasToken: the text contains
\* "laravel/framework"; json: the text is JSON; version:
\* require["laravel/framework"] of the parsed text, "undefined" when the text
\* is not JSON or has no such key.
ComposerStates ==
    {c \in [state : {"absent", "unreadable", "readable"},
            hasToken : BOOLEAN,
            json : BOOLEAN,
            version : {"undefined", "^10.0"}] :
        /\ c.version # "undefined" => (c.hasToken /\ c.json)
        /\ c.state = "absent" => (~c.hasToken /\ ~c.json)}

\* package.json: absent, not readable, not JSON, or parsed; dependencies and
\* devDependencies are the values of their express keys ("" is the empty range)
PackageStates ==
    {k \in [state : {"absent", "unreadable", "invalid", "parsed"},
            dependencies : {"undefined", "", "^4.18.0"},
            devDependencies : {"undefined", "", "^4.17.0"}] :
        k.state # "parsed" => (k.dependencies = "undefined" /\ k.devDependencies = "undefined")}

Projects ==
    [artisan : BOOLEAN, composer : ComposerStates,
     gemfile : BOOLEAN, applicationRb : BOOLEAN,
     managePy : BOOLEAN, requirementsTxt : BOOLEAN,
     packageJson : PackageStates]

\* JavaScript truthiness of a string-or-undefined value
Truthy(v) == v \notin {"undefined", ""}

\* a || b
OrElse(a, b) == IF Truthy(a) THEN a ELSE b

FrameworkInfo(type, version, error) == [type |-> type, version |-> version, error |-> error]

extractLaravelVersion(composer) == OrElse(composer.version, "unknown")

\* "Check for Express/Node.js" and the final return
DetectExpress(p) ==
    IF p.packageJson.state = "absent"
    THEN Return(FrameworkInfo("unknown", "null", "none"))
    ELSE IF p.packageJson.state = "unreadable"
    THEN Throw("readFile package.json")
    ELSE IF p.packageJson.state = "invalid"
    THEN Throw("JSON.parse package.json")
    ELSE IF Truthy(OrElse(p.packageJson.dependencies, p.packageJson.devDependencies))
    THEN Return(FrameworkInfo("express",
                    OrElse(p.packageJson.dependencies, p.packageJson.devDependencies),
                    "none"))
    ELSE Return(FrameworkInfo("unknown", "null", "none"))

\* "Check for Django"
DetectDjango(p) ==
    IF p.managePy /\ p.requirementsTxt
    THEN Return(FrameworkInfo("django", "detected", "none"))
    ELSE DetectExpress(p)

\* mutant: Django is looked for before Rails
DetectDjangoBeforeRails(p) ==
    IF p.managePy /\ p.requirementsTxt
    THEN Return(FrameworkInfo("django", "detected", "none"))
    ELSE IF p.gemfile /\ p.applicationRb
    THEN Return(FrameworkInfo("rails", "detected", "none"))
    ELSE DetectExpress(p)

\* "Check for Rails"
DetectRails(p) ==
    IF p.gemfile /\ p.applicationRb
    THEN Return(FrameworkInfo("rails", "detected", "none"))
    ELSE DetectDjango(p)

\* "Check for Laravel": the body of the try block
DetectLaravel(p) ==
    IF p.artisan /\ p.composer.state # "absent"
    THEN IF p.composer.state = "unreadable"
         THEN Throw("readFile composer.json")
         ELSE IF p.composer.hasToken
         THEN Return(FrameworkInfo("laravel", extractLaravelVersion(p.composer), "none"))
         ELSE DetectRails(p)
    ELSE DetectRails(p)

\* mutant: no catch around the body
detectFrameworkNoCatch(p) == DetectLaravel(p)

\* try { ... } catch (error) { return {type: 'unknown', version: null, error} }
detectFramework(p) ==
    LET body == DetectLaravel(p)
    IN  IF body.threw
        THEN Return(FrameworkInfo("unknown", "null", body.message))
        ELSE body

(***************************************************************************)
(* Schema assembler: the per-framework generators                          *)
(***************************************************************************)
\* Object.keys order of the generated documents
SchemaOrder == <<"database", "api", "businessLogic", "componentArchitecture">>

\* What is wrong with, or special about, the Laravel source tree:
\*   serviceFile              app/Services/DatabaseSchemaService.php exists
\*   tinkerFails              the php artisan tinker command fails
\*   migrationUnreadable      a file of database/migrations cannot be read
\*   routeFileUnreadable      routes/web.php cannot be read
\*   kernelUnreadable         app/Http/Kernel.php cannot be read
\*   modelsDirUnreadable      app/Models cannot be listed
SourceFaults ==
    {"serviceFile", "tinkerFails", "migrationUnreadable", "routeFileUnreadable",
     "kernelUnreadable", "modelsDirUnreadable"}

\* scanLaravelMigrations: any error is caught and only logged
scanLaravelMigrations(src) ==
    IF "migrationUnreadable" \in src
    THEN "tables of the migrations read before the error"
    ELSE "tables of all migrations"

\* the try block of generateLaravelDatabaseSchema
DatabaseBody(src) ==
    IF "serviceFile" \in src
    THEN IF "tinkerFails" \in src
         THEN Return([tables |-> scanLaravelMigrations(src), relationships |-> "[]"])
         ELSE Return([tables |-> "tables of the service", relationships |-> "of the service"])
    ELSE Return([tables |-> scanLaravelMigrations(src), relationships |-> "[]"])

generateLaravelDatabaseSchema(src) ==
    LET body == DatabaseBody(src)
    IN  IF body.threw
        THEN [type |-> "database", framework |-> "laravel", tables |-> "{}",
              relationships |-> "[]", error |-> body.message]
        ELSE [type |-> "database", framework |-> "laravel",
              tables |-> body.value.tables,
              relationships |-> body.value.relationships, error |-> "none"]

\* scanDirectory: an error of the listing is returned as {error: message}
scanDirectory(dir, src) ==
    IF dir = "app/Models" /\ "modelsDirUnreadable" \in src
    THEN "{error}"
    ELSE IF dir = "database/migrations" /\ "migrationUnreadable" \in src
    THEN "files, the unreadable one as {error}"
    ELSE IF dir = "routes" /\ "routeFileUnreadable" \in src
    THEN "files, the unreadable one as {error}"
    ELSE "files"

\* the try block of generateLaravelApiSchema; the fields assigned before a
\* throw keep their value
ApiBody(src) ==
    IF "routeFileUnreadable" \in src
    THEN [threw |-> TRUE, message |-> "readFile routes/web.php",
          routes |-> "{}", controllers |-> "{}", middleware |-> "[]"]
    ELSE IF "kernelUnreadable" \in src
    THEN [threw |-> TRUE, message |-> "readFile app/Http/Kernel.php",
          routes |-> "parsed routes", controllers |-> "scanned controllers",
          middleware |-> "[]"]
    ELSE [threw |-> FALSE, message |-> "none",
          routes |-> "parsed routes", controllers |-> "scanned controllers",
          middleware |-> "parsed middleware"]

generateLaravelApiSchema(src) ==
    LET body == ApiBody(src)
    IN  [type |-> "api", framework |-> "laravel", routes |-> body.routes,
         controllers |-> body.controllers, middleware |-> body.middleware,
         error |-> IF body.threw THEN body.message ELSE "none"]

\* scanDirectory never throws, so the catch of this generator never runs
generateLaravelBusinessLogicSchema(src) ==
    [type |-> "business_logic", framework |-> "laravel",
     models |-> scanDirectory("app/Models", src),
     services |-> scanDirectory("app/Services", src),
     error |-> "none"]

\* the try block of generateLaravelComponentSchema
ComponentBody(composer) ==
    IF composer.state = "unreadable"
    THEN [threw |-> TRUE, message |-> "readFile composer.json",
          dependencies |-> "{}", configuration |-> "{}"]
    ELSE IF composer.state = "readable" /\ ~composer.json
    THEN [threw |-> TRUE, message |-> "JSON.parse composer.json",
          dependencies |-> "{}", configuration |-> "{}"]
    ELSE [threw |-> FALSE, message |-> "none",
          dependencies |-> IF composer.state = "absent" THEN "{}" ELSE "of composer.json",
          configuration |-> "config snippets"]

generateLaravelComponentSchema(src, composer) ==
    LET body == ComponentBody(composer)
    IN  [type |-> "component_architecture", framework |-> "laravel",
         models |-> scanDirectory("app/Models", src),
         migrations |-> scanDirectory("database/migrations", src),
         routes |-> scanDirectory("routes", src),
         dependencies |-> body.dependencies,
         configuration |-> body.configuration,
         error |-> IF body.threw THEN body.message ELSE "none"]

generateLaravelSchemas(src, composer) ==
    [n \in Range(SchemaOrder) |->
        CASE n = "database" -> generateLaravelDatabaseSchema(src)
          [] n = "api" -> generateLaravelApiSchema(src)
          [] n = "businessLogic" -> generateLaravelBusinessLogicSchema(src)
          [] n = "componentArchitecture" -> generateLaravelComponentSchema(src, composer)]

\* the type tag of each document
TypeTag(n) ==
    CASE n = "database" -> "database"
      [] n = "api" -> "api"
      [] n = "businessLogic" -> "business_logic"
      [] n = "componentArchitecture" -> "component_architecture"

\* generateRailsSchemas, generateDjangoSchemas, generateExpressSchemas and
\* generateGenericSchemas (framework "unknown"): four placeholder documents
PlaceholderSchemas(framework) ==
    [n \in Range(SchemaOrder) |->
        [type |-> TypeTag(n), framework |-> framework,
         note |-> "implementation pending"]]

\* mutant: the generic generator has no component architecture document
DispatchNoGenericComponent(type, src, composer) ==
    CASE type = "laravel" -> generateLaravelSchemas(src, composer)
      [] type \in {"rails", "django", "express"} -> PlaceholderSchemas(type)
      [] OTHER -> [n \in Range(SchemaOrder) \ {"componentArchitecture"} |->
                      PlaceholderSchemas("unknown")[n]]

\* switch (detectedFramework.type)
Dispatch(type, src, composer) ==
    CASE type = "laravel" -> generateLaravelSchemas(src, composer)
      [] type \in {"rails", "django", "express"} -> PlaceholderSchemas(type)
      [] OTHER -> PlaceholderSchemas("unknown")

(***************************************************************************)
(* Schema persistence: saveSchemas, getSchemaInfo                          *)
(***************************************************************************)
\* history = history.slice(0, 50)
HistoryCap == 50

\* new Date(t).toISOString()
Iso(t) == [format |-> "iso", instant |-> t]

\* toISOString().replace(/[:.]/g, '-')
Dashed(t) == [format |-> "dashed", instant |-> t]

\* `v${timestamp}`
VersionKey(timestamp) == <<"v", timestamp>>

\* `${name}-schema.yml` and metadata.yml under current, `${name}.yml` under
\* a version
CurrentName(n) == <<n, "-schema.yml">>

MetadataName == <<"metadata", ".yml">>

VersionName(n) == <<n, ".yml">>

\* A file: absent, present but unreadable, text that is not YAML, or YAML of
\* a kind (null for an empty document, list, mapping, string) with its value
AbsentFile == [state |-> "absent", kind |-> "none", doc |-> <<>>]

UnreadableFile == [state |-> "unreadable", kind |-> "none", doc |-> <<>>]

GarbageFile == [state |-> "garbage", kind |-> "none", doc |-> <<>>]

\* yaml.dump(value) written to a file
YamlDump(kind, value) == [state |-> "yaml", kind |-> kind, doc |-> value]

\* fs.readFile followed by yaml.load
ReadYaml(file) ==
    IF file.state = "absent" THEN Throw("ENOENT")
    ELSE IF file.state = "unreadable" THEN Throw("EACCES")
    ELSE IF file.state = "garbage" THEN Throw("YAMLException")
    ELSE Return([kind |-> file.kind, doc |-> file.doc])

\* the file of a directory, AbsentFile when there is none
FileOf(dir, name) == IF name \in DOMAIN dir THEN dir[name] ELSE AbsentFile

\* writing the files of `written` into `dir` (fs.writeFile overwrites)
WriteAll(dir, written) ==
    [f \in DOMAIN dir \cup DOMAIN written |->
        IF f \in DOMAIN written THEN written[f] ELSE dir[f]]

Min(a, b) == IF a <= b THEN a ELSE b

\* Object.keys(schemas).filter(key => key !== 'metadata')
RECURSIVE KeysFrom(_, _)
KeysFrom(schemas, i) ==
    IF i > Len(SchemaOrder) THEN <<>>
    ELSE (IF SchemaOrder[i] \in DOMAIN schemas THEN <<SchemaOrder[i]>> ELSE <<>>)
         \o KeysFrom(schemas, i + 1)

SchemaKeys(schemas) == KeysFrom(schemas, 1)

\* try { history = yaml.load(readFile(historyFile)) || [] } catch {}
LoadHistory(file) ==
    LET loaded == ReadYaml(file)
    IN  IF loaded.threw THEN [kind |-> "list", doc |-> <<>>]
        ELSE IF loaded.value.kind = "null" THEN [kind |-> "list", doc |-> <<>>]
        ELSE loaded.value

\* mutant: the new entry is appended (push) instead of prepended
PrependEntryAtEnd(entry, history) ==
    SubSeq(Append(history, entry), 1, Min(Len(history) + 1, HistoryCap))

\* history.unshift(historyEntry); history = history.slice(0, 50)
PrependEntry(entry, history) ==
    SubSeq(<<entry>> \o history, 1, Min(Len(history) + 1, HistoryCap))

\* saveSchemas(schemas) at instant `now` on the disk state (cur, vers, hist):
\* the outcome and the disk state it leaves
saveSchemas(schemas, now, cur, vers, hist) ==
    LET timestamp == Dashed(now)
        names == Range(SchemaKeys(schemas))
        cur1 == WriteAll(cur,
                  [f \in {CurrentName(n) : n \in names} \cup {MetadataName} |->
                      IF f = MetadataName
                      THEN YamlDump("mapping", schemas["metadata"])
                      ELSE YamlDump("mapping",
                               schemas[CHOOSE n \in names : CurrentName(n) = f])])
        key == VersionKey(timestamp)
        snapshot == [f \in {VersionName(n) : n \in DOMAIN schemas} |->
                        YamlDump("mapping",
                            schemas[CHOOSE n \in DOMAIN schemas : VersionName(n) = f])]
        vers1 == [k \in DOMAIN vers \cup {key} |->
                    IF k = key
                    THEN WriteAll(IF key \in DOMAIN vers THEN vers[key] ELSE <<>>, snapshot)
                    ELSE vers[k]]
        historyEntry == [timestamp |-> timestamp,
                         version   |-> key,
                         framework |-> schemas["metadata"].framework,
                         schemas   |-> SchemaKeys(schemas),
                         changeLog |-> "Schema generation completed successfully"]
        history == LoadHistory(hist)
    IN  IF history.kind # "list"
        THEN [outcome |-> Throw("history.unshift is not a function"),
              current |-> cur1, versions |-> vers1, historyFile |-> hist,
              entry |-> historyEntry]
        ELSE [outcome |-> Return("undefined"),
              current |-> cur1, versions |-> vers1,
              historyFile |-> YamlDump("list", PrependEntry(historyEntry, history.doc)),
              entry |-> historyEntry]

\* saveSchemas one I/O operation at a time. A call in flight (a writer) is at
\* position pc, writing the i-th file of a loop, with its locals: the schemas
\* argument, its timestamp and the ledger it read. The disk is the record of
\* current/, versions/ and history/changes.yml. A failing mkdir or writeFile
\* leaves the disk as it was.
SaveStart(schemas) ==
    [pc |-> "timestamp", i |-> 1, schemas |-> schemas,
     timestamp |-> [pending |-> TRUE], history |-> <<>>]

\* Object.entries(schemas): the documents, then the metadata added last
EntryOrder(schemas) == SchemaKeys(schemas) \o <<"metadata">>

\* const historyEntry = { timestamp, version, framework, schemas, changeLog }
HistoryEntryOf(w) ==
    [timestamp |-> w.timestamp,
     version   |-> VersionKey(w.timestamp),
     framework |-> w.schemas["metadata"].framework,
     schemas   |-> SchemaKeys(w.schemas),
     changeLog |-> "Schema generation completed successfully"]

\* the operations of saveSchemas that are awaited outside any try block
Positions ==
    {"writeCurrent", "writeMetadata", "mkdirVersion", "writeVersion",
     "readHistory", "writeHistory"}

\* mutant: the ledger write is inside the try block of the ledger read
IoFailureThrowsOutsideLedger(pc) == pc \notin {"readHistory", "writeHistory"}

\* a failure of the operation at pc rejects saveSchemas: all but the ledger
\* read, whose failure is caught
IoFailureThrows(pc) == pc # "readHistory"

\* the writer is at the operation the fault names
AtFault(w, fault) == w.pc = fault.pc /\ w.i = fault.i

\* one file written into a directory
WriteOne(dir, name, file) == WriteAll(dir, [f \in {name} |-> file])

\* the next operation of writer w on disk d at instant now; `fails` says
\* that the operation fails
SaveStep(w, d, now, fails) ==
    LET key == VersionKey(w.timestamp)
        names == SchemaKeys(w.schemas)
        entries == EntryOrder(w.schemas)
        threw == [writer |-> [w EXCEPT !.pc = "threw"], disk |-> d]
    IN  CASE w.pc = "timestamp" ->
               [writer |-> [w EXCEPT !.timestamp = Dashed(now),
                                     !.pc = IF Len(names) > 0 THEN "writeCurrent"
                                            ELSE "writeMetadata"],
                disk |-> d]
          [] w.pc = "writeCurrent" ->
               IF fails /\ IoFailureThrows(w.pc) THEN threw
               ELSE [writer |-> IF w.i < Len(names) THEN [w EXCEPT !.i = w.i + 1]
                                ELSE [w EXCEPT !.pc = "writeMetadata", !.i = 1],
                     disk |-> [d EXCEPT !.current =
                                 IF fails THEN @
                                 ELSE WriteOne(@, CurrentName(names[w.i]),
                                               YamlDump("mapping", w.schemas[names[w.i]]))]]
          [] w.pc = "writeMetadata" ->
               IF fails /\ IoFailureThrows(w.pc) THEN threw
               ELSE [writer |-> [w EXCEPT !.pc = "mkdirVersion"],
                     disk |-> [d EXCEPT !.current =
                                 IF fails THEN @
                                 ELSE WriteOne(@, MetadataName,
                                               YamlDump("mapping", w.schemas["metadata"]))]]
          [] w.pc = "mkdirVersion" ->
               IF fails /\ IoFailureThrows(w.pc) THEN threw
               ELSE [writer |-> [w EXCEPT !.pc = "writeVersion", !.i = 1],
                     disk |-> [d EXCEPT !.versions =
                                 IF fails \/ key \in DOMAIN @ THEN @
                                 ELSE [k \in DOMAIN @ \cup {key} |->
                                          IF k = key THEN <<>> ELSE @[k]]]]
          [] w.pc = "writeVersion" ->
               IF (fails \/ key \notin DOMAIN d.versions) /\ IoFailureThrows(w.pc) THEN threw
               ELSE [writer |-> IF w.i < Len(entries) THEN [w EXCEPT !.i = w.i + 1]
                                ELSE [w EXCEPT !.pc = "readHistory", !.i = 1],
                     disk |-> [d EXCEPT !.versions =
                                 IF fails \/ key \notin DOMAIN @ THEN @
                                 ELSE [@ EXCEPT ![key] =
                                         WriteOne(@, VersionName(entries[w.i]),
                                                  YamlDump("mapping", w.schemas[entries[w.i]]))]]]
          [] w.pc = "readHistory" ->
               LET history == LoadHistory(IF fails THEN UnreadableFile ELSE d.historyFile)
               IN  IF history.kind # "list" THEN threw
                   ELSE [writer |-> [w EXCEPT !.pc = "writeHistory",
                                              !.history = PrependEntry(HistoryEntryOf(w),
                                                                       history.doc)],
                         disk |-> d]
          [] w.pc = "writeHistory" ->
               IF fails /\ IoFailureThrows(w.pc) THEN threw
               ELSE [writer |-> [w EXCEPT !.pc = "returned"],
                     disk |-> [d EXCEPT !.historyFile =
                                 IF fails THEN @ ELSE YamlDump("list", w.history)]]
          [] OTHER -> [writer |-> w, disk |-> d]

\* saveSchemas run to its end without another writer in between; the
\* operation named by `fault` fails
RECURSIVE RunSave(_, _, _, _)
RunSave(w, d, now, fault) ==
    IF w.pc \in {"returned", "threw"} THEN [writer |-> w, disk |-> d]
    ELSE LET next == SaveStep(w, d, now, AtFault(w, fault))
         IN  RunSave(next.writer, next.disk, now, fault)

\* listSchemaVersions: the keys, latest first (as a set here)
listSchemaVersions(vers) == DOMAIN vers

\* getSchemaInfo on the disk state
getSchemaInfo(cur, vers) ==
    LET metadata == ReadYaml(FileOf(cur, MetadataName))
    IN  IF metadata.threw
        THEN [success |-> FALSE, error |-> metadata.message]
        ELSE [success |-> TRUE, current |-> metadata.value,
              availableSchemas |-> {f[1] : f \in {g \in DOMAIN cur : g[2] = "-schema.yml"}},
              versions |-> listSchemaVersions(vers)]

(***************************************************************************)
(* generateSchemas, checkFreshness and the tool handlers                   *)
(***************************************************************************)
\* the framework argument of generateSchemas: { type: framework }
OverrideInfo(framework) == FrameworkInfo(framework, "undefined", "none")

\* mutant: the Detector is asked first and the override only fills in for an
\* unknown framework
ResolveFrameworkDetectorWins(override, proj) ==
    LET found == detectFramework(proj)
    IN  IF ~found.threw /\ found.value.type = "unknown" /\ override # "none"
        THEN Return(OverrideInfo(override))
        ELSE found

\* framework || await this.detectFramework()
ResolveFramework(override, proj) ==
    IF override # "none"
    THEN Return(OverrideInfo(override))
    ELSE detectFramework(proj)

\* What detectFramework and the generators read under the project root: a
\* file by its path, or a directory scanned with an extension filter (""
\* for none), subdirectories included. A file name is <<base, suffix>>.
FileRead(dir, base, suffix) ==
    [scan |-> FALSE, dir |-> dir, name |-> <<base, suffix>>, extension |-> ""]

DirectoryScan(dir, extension) ==
    [scan |-> TRUE, dir |-> dir, name |-> <<"", "">>, extension |-> extension]

\* mutant: the component generator scans the whole project root, any file
GeneratorReadsWholeRoot ==
    {FileRead(<<>>, "artisan", ""), FileRead(<<>>, "composer", ".json"),
     DirectoryScan(<<>>, "")}

GeneratorReads ==
    {FileRead(<<>>, "artisan", ""), FileRead(<<>>, "composer", ".json"),
     FileRead(<<>>, "Gemfile", ""), FileRead(<<"config">>, "application", ".rb"),
     FileRead(<<>>, "manage", ".py"), FileRead(<<>>, "requirements", ".txt"),
     FileRead(<<>>, "package", ".json"),
     FileRead(<<"app", "Services">>, "DatabaseSchemaService", ".php"),
     FileRead(<<"routes">>, "web", ".php"), FileRead(<<"routes">>, "api", ".php"),
     FileRead(<<"app", "Http">>, "Kernel", ".php"),
     FileRead(<<"config">>, "app", ".php"), FileRead(<<"config">>, "database", ".php"),
     FileRead(<<"config">>, "services", ".php"),
     DirectoryScan(<<"database", "migrations">>, ".php"),
     DirectoryScan(<<"app", "Http", "Controllers">>, ".php"),
     DirectoryScan(<<"app", "Models">>, ".php"),
     DirectoryScan(<<"app", "Policies">>, ".php"),
     DirectoryScan(<<"app", "Services">>, ".php"),
     DirectoryScan(<<"app", "Events">>, ".php"),
     DirectoryScan(<<"app", "Jobs">>, ".php"),
     DirectoryScan(<<"app", "Rules">>, ".php"),
     DirectoryScan(<<"app", "Console", "Commands">>, ".php"),
     DirectoryScan(<<"app", "Http", "Middleware">>, ".php"),
     DirectoryScan(<<"resources", "views">>, ".blade.php"),
     DirectoryScan(<<"database", "seeders">>, ".php"),
     DirectoryScan(<<"tests">>, ".php"),
     DirectoryScan(<<"config">>, ".php"),
     DirectoryScan(<<"routes">>, ".php")}

\* path.join(this.projectRoot, '.taskmaster', 'schemas'), relative to the root
schemaDir == <<".taskmaster", "schemas">>

\* the files under schemaDir on a disk state, each with its directory
SchemaFiles(cur, vers, hist) ==
    {[dir |-> schemaDir \o <<"current">>, name |-> f] : f \in DOMAIN cur} \cup
    UNION {{[dir |-> schemaDir \o <<"versions", k[1]>>, name |-> f] : f \in DOMAIN vers[k]} :
              k \in DOMAIN vers} \cup
    (IF hist.state = "absent" THEN {}
     ELSE {[dir |-> schemaDir \o <<"history">>, name |-> <<"changes", ".yml">>]})

IsPrefix(p, q) == Len(p) <= Len(q) /\ SubSeq(q, 1, Len(p)) = p

\* entry.name.endsWith(extension), for the suffixes of the schema files
EndsWith(name, extension) ==
    \/ extension = ""
    \/ name[2] = extension
    \/ name[2] = "-schema.yml" /\ extension = ".yml"

\* the read returns something of, or about, the file
Sees(read, file) ==
    IF read.scan
    THEN IsPrefix(read.dir, file.dir) /\ EndsWith(file.name, read.extension)
    ELSE read.dir = file.dir /\ read.name = file.name

\* the documents of the framework's generator and the metadata of a run
\* started at instant `now`
BuildSchemas(detectedFramework, now, src, composer) ==
    LET documents == Dispatch(detectedFramework.type, src, composer)
        metadata == [framework   |-> detectedFramework,
                     generatedAt |-> Iso(now),
                     version     |-> "1.0.0",
                     projectRoot |-> "projectRoot"]
    IN  [n \in DOMAIN documents \cup {"metadata"} |->
            IF n = "metadata" THEN metadata ELSE documents[n]]

\* return { success: true, framework, schemas, timestamp, location }
GenerateResult(detectedFramework, schemas) ==
    [success   |-> TRUE,
     framework |-> detectedFramework,
     schemas   |-> SchemaKeys(schemas),
     timestamp |-> schemas["metadata"].generatedAt]

\* generateSchemas(framework) started at instant `now`, its saveSchemas call
\* made at instant `saveAt`: the outcome and the disk state it leaves
generateSchemas(override, proj, src, now, saveAt, cur, vers, hist) ==
    LET detection == ResolveFramework(override, proj)
    IN  IF detection.threw
        THEN [outcome |-> detection, current |-> cur, versions |-> vers,
              historyFile |-> hist, saveCall |-> <<>>]
        ELSE
        LET detectedFramework == detection.value
            schemas == BuildSchemas(detectedFramework, now, src, proj.composer)
            save == saveSchemas(schemas, saveAt, cur, vers, hist)
        IN  [outcome |-> IF save.outcome.threw THEN save.outcome
                         ELSE Return(GenerateResult(detectedFramework, schemas)),
             current |-> save.current, versions |-> save.versions,
             historyFile |-> save.historyFile,
             saveCall |-> <<[entry |-> save.entry, returned |-> ~save.outcome.threw,
                           saved |-> schemas]>>]

\* no operation fails
NoFault == [pc |-> "none", i |-> 1]

\* the operation that fails: one of the mkdir calls of ensureDirectories, or
\* an operation of saveSchemas (for a loop, on its i-th file)
FaultPoints ==
    {[pc |-> "ensureDirectories", i |-> 1]} \cup
    {[pc |-> "writeCurrent", i |-> i] : i \in 1..Len(SchemaOrder)} \cup
    {[pc |-> "writeVersion", i |-> i] : i \in 1..(Len(SchemaOrder) + 1)} \cup
    {[pc |-> pc, i |-> 1] : pc \in Positions \ {"writeCurrent", "writeVersion"}}

\* generateSchemas on a disk where the operation named by `fault` fails
generateSchemasOnDisk(override, proj, src, now, saveAt, cur, vers, hist, fault) ==
    LET detection == ResolveFramework(override, proj)
    IN  IF fault.pc = "ensureDirectories"
        THEN [outcome |-> Throw("mkdir"), current |-> cur, versions |-> vers,
              historyFile |-> hist, saveCall |-> <<>>]
        ELSE IF detection.threw
        THEN [outcome |-> detection, current |-> cur, versions |-> vers,
              historyFile |-> hist, saveCall |-> <<>>]
        ELSE
        LET detectedFramework == detection.value
            schemas == BuildSchemas(detectedFramework, now, src, proj.composer)
            save == RunSave(SaveStart(schemas),
                            [current |-> cur, versions |-> vers, historyFile |-> hist],
                            saveAt, fault)
        IN  [outcome |-> IF save.writer.pc = "threw" THEN Throw("saveSchemas")
                         ELSE Return(GenerateResult(detectedFramework, schemas)),
             current |-> save.disk.current, versions |-> save.disk.versions,
             historyFile |-> save.disk.historyFile,
             saveCall |-> <<[entry |-> HistoryEntryOf(save.writer),
                            returned |-> save.writer.pc = "returned",
                            saved |-> schemas]>>]

\* async checkFreshness(generator, maxAgeMinutes = 5)
DefaultMaxAgeMinutes == 5

\* mutant: an age equal to the limit still counts as fresh
FreshnessBodyInclusive(cur, vers, now, maxAgeMinutes) ==
    LET info == getSchemaInfo(cur, vers)
    IN  IF ~info.success
        THEN Return([isFresh |-> FALSE, reason |-> "No schemas exist",
                     lastGenerated |-> "null", ageMinutes |-> "null"])
        ELSE IF info.current.kind = "null"
        THEN Return([isFresh |-> FALSE, reason |-> "No schemas exist",
                     lastGenerated |-> "null", ageMinutes |-> "null"])
        ELSE IF info.current.kind # "mapping"
        THEN \* generatedAt is undefined: the age is NaN and NaN < max is false
             Return([isFresh |-> FALSE, reason |-> "Schemas are stale",
                     lastGenerated |-> "undefined", ageMinutes |-> "NaN"])
        ELSE LET ageMinutes == now - info.current.doc.generatedAt.instant
             IN  Return([isFresh |-> ageMinutes <= maxAgeMinutes,
                         reason |-> IF ageMinutes <= maxAgeMinutes
                                    THEN "Schemas are fresh" ELSE "Schemas are stale",
                         lastGenerated |-> info.current.doc.generatedAt,
                         ageMinutes |-> ageMinutes])

\* the try block of checkFreshness
FreshnessBody(cur, vers, now, maxAgeMinutes) ==
    LET info == getSchemaInfo(cur, vers)
    IN  IF ~info.success
        THEN Return([isFresh |-> FALSE, reason |-> "No schemas exist",
                     lastGenerated |-> "null", ageMinutes |-> "null"])
        ELSE IF info.current.kind = "null"
        THEN Return([isFresh |-> FALSE, reason |-> "No schemas exist",
                     lastGenerated |-> "null", ageMinutes |-> "null"])
        ELSE IF info.current.kind # "mapping"
        THEN \* generatedAt is undefined: the age is NaN and NaN < max is false
             Return([isFresh |-> FALSE, reason |-> "Schemas are stale",
                     lastGenerated |-> "undefined", ageMinutes |-> "NaN"])
        ELSE LET ageMinutes == now - info.current.doc.generatedAt.instant
             IN  Return([isFresh |-> ageMinutes < maxAgeMinutes,
                         reason |-> IF ageMinutes < maxAgeMinutes
                                    THEN "Schemas are fresh" ELSE "Schemas are stale",
                         lastGenerated |-> info.current.doc.generatedAt,
                         ageMinutes |-> ageMinutes])

checkFreshness(cur, vers, now, maxAgeMinutes) ==
    LET body == FreshnessBody(cur, vers, now, maxAgeMinutes)
    IN  IF body.threw
        THEN [isFresh |-> FALSE, reason |-> "Error checking freshness",
              lastGenerated |-> "null", ageMinutes |-> "null"]
        ELSE body.value

\* mutant: the skip test ignores the force flag
ShouldSkipIgnoringForce(force, triggerContext, freshness) ==
    freshness.isFresh /\ triggerContext # "parse-prd"

\* if (!force) { ... if (freshness.isFresh && triggerContext !== 'parse-prd') return skipped }
ShouldSkip(force, triggerContext, freshness) ==
    ~force /\ freshness.isFresh /\ triggerContext # "parse-prd"

\* a project root without any marker file
NoMarkers ==
    [artisan |-> FALSE,
     composer |-> [state |-> "absent", hasToken |-> FALSE, json |-> FALSE,
                   version |-> "undefined"],
     gemfile |-> FALSE, applicationRb |-> FALSE,
     managePy |-> FALSE, requirementsTxt |-> FALSE,
     packageJson |-> [state |-> "absent", dependencies |-> "undefined",
                      devDependencies |-> "undefined"]]

DetectorIdle == project = NoMarkers /\ detected = NoResult

AdvisorIdle == taskType = "other" /\ changedFiles = <<>> /\ updateRecommendation = NoResult

\* nothing generated yet: no file under .taskmaster/schemas
DiskEmpty ==
    /\ current = <<>>
    /\ versions = <<>>
    /\ historyFile = AbsentFile
    /\ integrationLog = <<>>

\* no saveSchemas call in flight
RaceIdle == writers = <<>> /\ lastWriter = <<>>

\* scanDirectory not called
ScanIdle == tree = <<>> /\ scanned = NoResult

ParseIdle ==
    /\ migrations = [exists |-> FALSE, files |-> <<>>]
    /\ tableInfo = NoResult
    /\ tables = NoResult
    /\ routeContent = <<>>
    /\ routes = NoResult

WorkflowIdle == workflow = NoResult

NoCalls == request = NoResult /\ response = NoResult /\ saveCalls = <<>>

GeneratorIdle == sources = {} /\ clock = 0 /\ DiskEmpty /\ NoCalls

(***************************************************************************)
(* Specification of the detector: every combination of marker files        *)
(***************************************************************************)
InitDetect ==
    /\ ParseIdle
    /\ WorkflowIdle
    /\ project \in Projects
    /\ detected = NoResult
    /\ AdvisorIdle
    /\ RaceIdle
    /\ ScanIdle
    /\ GeneratorIdle

DetectFramework ==
    /\ detected = NoResult
    /\ detected' = detectFramework(project)
    /\ UNCHANGED <<project, advisorVars, raceVars, scanVars, sources, parseVars, workflow, clock, diskVars, callVars>>

NextDetect == DetectFramework

SpecDetect == InitDetect /\ [][NextDetect]_vars

(***************************************************************************)
(* Specification of the assembler: one generateSchemas call (the CLI's     *)
(* generate command) on every project and override                         *)
(***************************************************************************)
WithMarkers(p, fields) == [k \in DOMAIN p |-> IF k \in DOMAIN fields THEN fields[k] ELSE p[k]]

LaravelProject ==
    WithMarkers(NoMarkers,
        [artisan |-> TRUE,
         composer |-> [state |-> "readable", hasToken |-> TRUE, json |-> TRUE,
                       version |-> "^10.0"]])

\* a Laravel project whose composer.json names laravel/framework and is not JSON
LaravelBrokenComposer ==
    WithMarkers(NoMarkers,
        [artisan |-> TRUE,
         composer |-> [state |-> "readable", hasToken |-> TRUE, json |-> FALSE,
                       version |-> "undefined"]])

RailsProject == WithMarkers(NoMarkers, [gemfile |-> TRUE, applicationRb |-> TRUE])

DjangoProject == WithMarkers(NoMarkers, [managePy |-> TRUE, requirementsTxt |-> TRUE])

ExpressProject ==
    WithMarkers(NoMarkers,
        [packageJson |-> [state |-> "parsed", dependencies |-> "^4.18.0",
                          devDependencies |-> "undefined"]])

BrokenPackageProject ==
    WithMarkers(NoMarkers,
        [packageJson |-> [state |-> "invalid", dependencies |-> "undefined",
                          devDependencies |-> "undefined"]])

GenProjects ==
    {NoMarkers, LaravelProject, LaravelBrokenComposer, RailsProject, DjangoProject, ExpressProject,
     BrokenPackageProject}

\* the --framework argument: none, a supported name, or any other string
Overrides == {"none", "laravel", "rails", "django", "express", "symfony"}

\* generateSchemas started now, saving `elapsed` later; `advance` passes
\* after it has returned
RunGenerate(override, elapsed, advance) ==
    LET gen == generateSchemas(override, project, sources, clock, clock + elapsed,
                               current, versions, historyFile)
    IN  /\ current' = gen.current
        /\ versions' = gen.versions
        /\ historyFile' = gen.historyFile
        /\ saveCalls' = saveCalls \o gen.saveCall
        /\ request' = [tool |-> "generate", framework |-> override]
        /\ response' = gen.outcome
        /\ clock' = clock + elapsed + advance
        /\ UNCHANGED <<integrationLog, project, sources, parseVars, workflow, advisorVars, raceVars, scanVars, detected>>

\* main(): case 'generate'
CliGenerate ==
    /\ Len(saveCalls) < MaxGenRuns
    /\ \E override \in Overrides, elapsed \in 0..MaxElapsed :
          RunGenerate(override, elapsed, 0)

InitGenerate ==
    /\ ParseIdle
    /\ WorkflowIdle
    /\ project \in GenProjects
    /\ sources \in SUBSET SourceFaults
    /\ clock = 0
    /\ DiskEmpty
    /\ NoCalls
    /\ detected = NoResult
    /\ AdvisorIdle
    /\ RaceIdle
    /\ ScanIdle

NextGenerate == CliGenerate

SpecGenerate == InitGenerate /\ [][NextGenerate]_vars

(***************************************************************************)
(* Specification of the history ledger: generate after generate on one     *)
(* project root, each at a later instant, from every state of the ledger   *)
(***************************************************************************)
LedgerStates ==
    {AbsentFile, UnreadableFile, GarbageFile,
     YamlDump("null", <<>>), YamlDump("mapping", <<>>), YamlDump("string", <<>>)}

InitHistory ==
    /\ ParseIdle
    /\ WorkflowIdle
    /\ project = NoMarkers
    /\ sources = {}
    /\ clock = 0
    /\ current = <<>>
    /\ versions = <<>>
    /\ historyFile \in LedgerStates
    /\ integrationLog = <<>>
    /\ NoCalls
    /\ detected = NoResult
    /\ AdvisorIdle
    /\ RaceIdle
    /\ ScanIdle

SaveAgain ==
    /\ Len(saveCalls) < MaxSaves
    /\ RunGenerate("none", 0, 1)

NextHistory == SaveAgain

SpecHistory == InitHistory /\ [][NextHistory]_vars

(***************************************************************************)
(* Specification of the tool calls: generate_schemas and                   *)
(* check_schema_freshness as time passes. A generation takes less than a   *)
(* minute here, and the framework is detected.                             *)
(***************************************************************************)
\* triggerContext values of generate_schemas: the default and the one the
\* handler singles out
TriggerContexts == {"manual", "parse-prd"}

\* maxAge values of check_schema_freshness: checkFreshness's default and the
\* tool's default
MaxAges == {DefaultMaxAgeMinutes, 60}

\* current/ before the first call: empty, or a metadata.yml that cannot be
\* read, is not YAML, is empty, or holds something that is no metadata
InitialCurrents ==
    {<<>>} \cup
    {[f \in {MetadataName} |-> file] :
        file \in {UnreadableFile, GarbageFile, YamlDump("null", <<>>),
                  YamlDump("string", <<>>)}}

Init ==
    /\ ParseIdle
    /\ WorkflowIdle
    /\ project = NoMarkers
    /\ sources = {}
    /\ clock = 0
    /\ current \in InitialCurrents
    /\ versions = <<>>
    /\ historyFile = AbsentFile
    /\ integrationLog = <<>>
    /\ NoCalls
    /\ detected = NoResult
    /\ AdvisorIdle
    /\ RaceIdle
    /\ ScanIdle

Tick ==
    /\ clock < MaxClock
    /\ clock' = clock + 1
    /\ UNCHANGED <<project, sources, parseVars, workflow, diskVars, callVars, advisorVars, raceVars, scanVars, detected>>

\* logGenerationEvent: one line appended to integration.log
LogEntry(triggerContext, result, now) ==
    [timestamp |-> Iso(now), triggerContext |-> triggerContext,
     framework |-> result.framework, schemas |-> result.schemas,
     success |-> result.success]

\* mutant: the skipped payload with the generation time in its version-key form
SkippedResponseDashed(freshness) ==
    [isError |-> FALSE, success |-> TRUE, skipped |-> TRUE,
     lastGenerated |-> Dashed(freshness.lastGenerated.instant),
     ageMinutes |-> freshness.ageMinutes]

\* the payload returned when generation is skipped
SkippedResponse(freshness) ==
    [isError |-> FALSE, success |-> TRUE, skipped |-> TRUE,
     lastGenerated |-> freshness.lastGenerated,
     ageMinutes |-> freshness.ageMinutes]

\* the CallTool handler for generate_schemas: handleGenerateSchemas inside
\* the try/catch that turns a thrown error into an isError response
HandleGenerateSchemas ==
    \E force \in BOOLEAN, triggerContext \in TriggerContexts :
      LET freshness == checkFreshness(current, versions, clock, DefaultMaxAgeMinutes)
          gen == generateSchemas("none", project, sources, clock, clock,
                                 current, versions, historyFile)
      IN  /\ request' = [tool |-> "generate_schemas", force |-> force,
                         triggerContext |-> triggerContext]
          /\ IF ShouldSkip(force, triggerContext, freshness)
             THEN /\ response' = SkippedResponse(freshness)
                  /\ UNCHANGED <<diskVars, saveCalls, clock>>
             ELSE /\ Len(saveCalls) < MaxRuns
                  /\ current' = gen.current
                  /\ versions' = gen.versions
                  /\ historyFile' = gen.historyFile
                  /\ saveCalls' = saveCalls \o gen.saveCall
                  /\ UNCHANGED clock
                  /\ IF gen.outcome.threw
                     THEN /\ response' = [isError |-> TRUE, text |-> gen.outcome.message]
                          /\ UNCHANGED integrationLog
                     ELSE /\ response' = [isError |-> FALSE, success |-> TRUE,
                                          skipped |-> FALSE,
                                          framework |-> gen.outcome.value.framework,
                                          schemas |-> gen.outcome.value.schemas,
                                          timestamp |-> gen.outcome.value.timestamp]
                          /\ integrationLog' =
                               Append(integrationLog,
                                      LogEntry(triggerContext, gen.outcome.value, clock))
          /\ UNCHANGED <<project, sources, parseVars, workflow, advisorVars, raceVars, scanVars, detected>>

\* handleCheckSchemaFreshness
HandleCheckSchemaFreshness ==
    \E maxAge \in MaxAges :
      /\ request' = [tool |-> "check_schema_freshness", maxAge |-> maxAge]
      /\ response' = checkFreshness(current, versions, clock, maxAge)
      /\ UNCHANGED <<project, sources, parseVars, workflow, clock, diskVars, saveCalls, advisorVars, raceVars, scanVars, detected>>

\* handleGetSchemaInfo (includeStats = false): the payload is getSchemaInfo's
\* result
HandleGetSchemaInfo ==
    /\ request' = [tool |-> "get_schema_info"]
    /\ response' = getSchemaInfo(current, versions)
    /\ UNCHANGED <<project, sources, parseVars, workflow, clock, diskVars, saveCalls, advisorVars, raceVars,
                   scanVars, detected>>

\* taskType and changedFiles arguments of auto_update_check: one that
\* requires an update and one that does not
AdvisorCalls ==
    {[taskType |-> "migration", changedFiles |-> <<>>],
     [taskType |-> "other", changedFiles |-> <<>>]}

\* handleAutoUpdateCheck: the recommendation, with the freshness when an
\* update is required
HandleAutoUpdateCheck ==
    \E args \in AdvisorCalls :
      LET updateNeeded == shouldAutoUpdate(args.taskType, args.changedFiles)
          result == [updateNeeded |-> updateNeeded.required,
                     reason |-> updateNeeded.reason,
                     confidence |-> updateNeeded.confidence,
                     affectedSchemas |-> updateNeeded.affectedSchemas,
                     currentStatus |->
                        IF updateNeeded.required
                        THEN checkFreshness(current, versions, clock, DefaultMaxAgeMinutes)
                        ELSE [undefined |-> TRUE]]
      IN  /\ request' = [tool |-> "auto_update_check", taskType |-> args.taskType,
                         changedFiles |-> args.changedFiles]
          /\ response' = result
          /\ UNCHANGED <<project, sources, parseVars, workflow, clock, diskVars, saveCalls, advisorVars,
                         raceVars, scanVars, detected>>

\* default: throw new Error(`Unknown tool: ${name}`), caught by the handler
HandleUnknownTool ==
    /\ request' = [tool |-> "no_such_tool"]
    /\ response' = [isError |-> TRUE, text |-> "Unknown tool: no_such_tool"]
    /\ UNCHANGED <<project, sources, parseVars, workflow, clock, diskVars, saveCalls, advisorVars, raceVars,
                   scanVars, detected>>

Next ==
    \/ Tick
    \/ HandleGenerateSchemas
    \/ HandleCheckSchemaFreshness
    \/ HandleGetSchemaInfo
    \/ HandleAutoUpdateCheck
    \/ HandleUnknownTool

Spec == Init /\ [][Next]_vars

(***************************************************************************)
(* Claims about the history ledger                                         *)
(***************************************************************************)
\* the saveSchemas calls that returned, oldest first
ReturnedSaves == SelectSeq(saveCalls, LAMBDA c : c.returned)

LedgerIsList == historyFile.state = "yaml" /\ historyFile.kind = "list"

\* C1: after successful saves the ledger has at most 50 entries; it holds the
\* entries of the most recent saves, newest first, so after more than 50 saves
\* it has exactly 50 and its first entry is the one of the last save.
C1_LedgerNewestFifty ==
    /\ LedgerIsList => Len(historyFile.doc) <= HistoryCap
    /\ Len(ReturnedSaves) > 0 =>
          /\ LedgerIsList
          /\ Len(historyFile.doc) = Min(Len(ReturnedSaves), HistoryCap)
          /\ \A i \in 1..Len(historyFile.doc) :
                historyFile.doc[i] = ReturnedSaves[Len(ReturnedSaves) + 1 - i].entry

\* C1 witness: 51 saves, 50 entries, the first is the 51st save's, the last
\* the second save's
C1_Witness ==
    /\ Len(ReturnedSaves) = HistoryCap + 1
    /\ LedgerIsList
    /\ Len(historyFile.doc) = HistoryCap
    /\ historyFile.doc[1].timestamp = ReturnedSaves[HistoryCap + 1].entry.timestamp
    /\ historyFile.doc[HistoryCap].timestamp = ReturnedSaves[2].entry.timestamp
    /\ historyFile.doc[1].timestamp # historyFile.doc[HistoryCap].timestamp

\* C10: a missing or corrupt ledger never blocks a save. The first save on a
\* ledger that is absent, unreadable, not YAML, empty, or YAML that is not a
\* list returns and leaves a ledger of exactly its own entry.
C10_Original ==
    Len(saveCalls) >= 1 =>
      /\ saveCalls[1].returned
      /\ (Len(saveCalls) = 1 =>
            /\ LedgerIsList
            /\ historyFile.doc = <<saveCalls[1].entry>>)

(***************************************************************************)
(* Claims about the assembler                                              *)
(***************************************************************************)
Generated == request # NoResult /\ request.tool = "generate" /\ ~response.threw

CurrentDocument(n) == current[CurrentName(n)].doc

\* C4: after a successful generate(), whatever the framework outcome, the
\* returned schema list is the four names and current/ holds exactly the
\* four documents and the metadata.
C4_FourDocuments ==
    Generated =>
      /\ response.value.success
      /\ response.value.schemas = SchemaOrder
      /\ DOMAIN current = {CurrentName(n) : n \in SchemaNames} \cup {MetadataName}
      /\ \A f \in DOMAIN current : current[f].state = "yaml" /\ current[f].kind = "mapping"
      /\ \A n \in SchemaNames : CurrentDocument(n).type = TypeTag(n)
      /\ current[MetadataName].doc.framework = response.value.framework

\* C4 witness: an override naming no supported framework
C4_Witness ==
    /\ Generated
    /\ request.framework = "symfony"
    /\ response.value.framework.type = "symfony"
    /\ CurrentDocument("componentArchitecture").framework = "unknown"

\* the extraction of document n hits one of the faults of the source tree
ExtractionFails(n, src) ==
    CASE n = "database" ->
            \/ {"serviceFile", "tinkerFails"} \subseteq src
            \/ ("migrationUnreadable" \in src /\ ~("serviceFile" \in src /\ "tinkerFails" \notin src))
      [] n = "api" -> "routeFileUnreadable" \in src \/ "kernelUnreadable" \in src
      [] n = "businessLogic" -> "modelsDirUnreadable" \in src
      [] n = "componentArchitecture" ->
            \/ project.composer.state = "unreadable"
            \/ (project.composer.state = "readable" /\ ~project.composer.json)

\* C7: when the extraction of a Laravel document fails, that document carries
\* an error string, all four documents are persisted and generate() reports
\* success.
C7_Original ==
    (Generated /\ response.value.framework.type = "laravel") =>
      /\ response.value.success
      /\ \A n \in SchemaNames :
            /\ CurrentName(n) \in DOMAIN current
            /\ ExtractionFails(n, sources) => CurrentDocument(n).error # "none"

(***************************************************************************)
(* Claims about the tool calls                                             *)
(***************************************************************************)
\* metadata.yml holds the metadata of a generation
MetadataValid ==
    /\ MetadataName \in DOMAIN current
    /\ current[MetadataName].state = "yaml"
    /\ current[MetadataName].kind = "mapping"

\* the current schemas are fresh for generate_schemas: generated less than
\* five minutes ago
SchemasFresh ==
    /\ MetadataValid
    /\ clock - current[MetadataName].doc.generatedAt.instant < DefaultMaxAgeMinutes

\* a step that is a generate_schemas call (no tool call advances the clock)
GenerateSchemasCall == clock' = clock /\ request'.tool = "generate_schemas"

\* the step ran the Assembler and its save
Regenerated == saveCalls' # saveCalls

\* C8 as stated: a generate_schemas call regenerates exactly when it is forced
\* or the schemas are not fresh.
C8_Original ==
    [][GenerateSchemasCall => (Regenerated <=> (request'.force \/ ~SchemasFresh))]_vars

\* C8 amended: a generate_schemas call regenerates exactly when it is forced,
\* the schemas are not fresh, or its triggerContext is parse-prd.
C8_RegeneratesWhenStaleForcedOrParsePrd ==
    [][GenerateSchemasCall =>
         (Regenerated <=> \/ request'.force
                          \/ ~SchemasFresh
                          \/ request'.triggerContext = "parse-prd")]_vars

\* C8 witness: a non-forced call found the schemas fresh and was skipped,
\* after a generation
C8_Witness ==
    /\ request # NoResult
    /\ request.tool = "generate_schemas"
    /\ ~request.force
    /\ ~response.isError
    /\ response.skipped
    /\ Len(saveCalls) = 1
    /\ SchemasFresh

\* C9: checkFreshness maps a missing metadata file to "No schemas exist" and
\* a metadata file that cannot be read or parsed to isFresh = false with a
\* different reason.
C9_Original ==
    (request # NoResult /\ request.tool = "check_schema_freshness") =>
      /\ MetadataName \notin DOMAIN current =>
            response = [isFresh |-> FALSE, reason |-> "No schemas exist",
                        lastGenerated |-> "null", ageMinutes |-> "null"]
      /\ ( /\ MetadataName \in DOMAIN current
           /\ current[MetadataName].state \in {"unreadable", "garbage"} ) =>
            /\ ~response.isFresh
            /\ response.reason # "No schemas exist"

(***************************************************************************)
(* Claims about the detector                                               *)
(***************************************************************************)
DetectorReturned == detected # NoResult

LaravelMarkers(p) == p.artisan /\ p.composer.state # "absent" /\ p.composer.hasToken

RailsMarkers(p) == p.gemfile /\ p.applicationRb

DjangoMarkers(p) == p.managePy /\ p.requirementsTxt

\* package.json declares express in dependencies or devDependencies
DeclaresExpress(p) ==
    /\ p.packageJson.state = "parsed"
    /\ (Truthy(p.packageJson.dependencies) \/ Truthy(p.packageJson.devDependencies))

\* composer.json is opened (artisan and composer.json exist) and cannot be read
ComposerReadFails(p) == p.artisan /\ p.composer.state = "unreadable"

\* package.json is the file looked at and cannot be read or parsed
PackageReadFails(p) ==
    /\ ~(p.artisan /\ p.composer.state # "absent" /\ p.composer.hasToken)
    /\ ~ComposerReadFails(p)
    /\ ~RailsMarkers(p) /\ ~DjangoMarkers(p)
    /\ p.packageJson.state \in {"unreadable", "invalid"}

\* C5: detectFramework never throws; with no recognisable marker file it
\* returns type unknown, and a read or parse failure on composer.json or
\* package.json comes back as {type: unknown, error: message}.
C5_DetectNeverThrows ==
    DetectorReturned =>
      /\ ~detected.threw
      /\ ( /\ ~(project.artisan /\ project.composer.state # "absent")
           /\ ~RailsMarkers(project) /\ ~DjangoMarkers(project)
           /\ project.packageJson.state = "absent" )
         => detected.value = FrameworkInfo("unknown", "null", "none")
      /\ (ComposerReadFails(project) \/ PackageReadFails(project))
         => /\ detected.value.type = "unknown"
            /\ detected.value.error # "none"
      /\ detected.value.error # "none" => detected.value.type = "unknown"

\* C5 witness: composer.json cannot be read and the error is returned as data
C5_Witness ==
    /\ DetectorReturned
    /\ ~detected.threw
    /\ ComposerReadFails(project)
    /\ detected.value.error = "readFile composer.json"

\* the first of laravel, rails, django, express whose condition holds
\* (express: a non-empty range under dependencies or devDependencies)
FirstMatch(p) ==
    IF LaravelMarkers(p) THEN "laravel"
    ELSE IF RailsMarkers(p) THEN "rails"
    ELSE IF DjangoMarkers(p) THEN "django"
    ELSE IF DeclaresExpress(p) THEN "express"
    ELSE "unknown"

\* C6 as stated: for every combination of marker files the detected type is
\* the first of laravel, rails, django, express whose condition holds.
C6_Original ==
    DetectorReturned => detected.value.type = FirstMatch(project)

\* C6 amended: first match wins in the order laravel, rails, django, express
\* whenever composer.json, if it is opened, can be read; when artisan and
\* composer.json exist and composer.json cannot be read the result is unknown
\* with an error, whatever rails, django or express markers exist.
C6_FirstMatchWins ==
    DetectorReturned =>
      /\ ~ComposerReadFails(project)
         => detected.value.type = FirstMatch(project)
      /\ ComposerReadFails(project)
         => /\ detected.value.type = "unknown"
            /\ detected.value.error # "none"

\* C6 witness: a project with the markers of all four frameworks is laravel,
\* and the rails markers win over django and express
C6_Witness ==
    /\ DetectorReturned
    /\ RailsMarkers(project) /\ DjangoMarkers(project) /\ DeclaresExpress(project)
    /\ ~project.artisan
    /\ detected.value.type = "rails"

(***************************************************************************)
(* Specification of the advisor: the arguments are drawn in the initial    *)
(* state and the operation is applied to them.                             *)
(***************************************************************************)
InitAdvisor ==
    /\ ParseIdle
    /\ WorkflowIdle
    /\ taskType \in TaskTypes
    /\ changedFiles \in SeqsUpTo(FilePaths, MaxFiles)
    /\ updateRecommendation = NoResult
    /\ DetectorIdle
    /\ GeneratorIdle
    /\ RaceIdle
    /\ ScanIdle

AutoUpdateCheck ==
    /\ updateRecommendation = NoResult
    /\ updateRecommendation' = shouldAutoUpdate(taskType, changedFiles)
    /\ UNCHANGED <<taskType, changedFiles, detectVars, sources, parseVars, workflow, clock, diskVars, callVars, raceVars, scanVars>>

NextAdvisor == AutoUpdateCheck

SpecAdvisor == InitAdvisor /\ [][NextAdvisor]_vars

(***************************************************************************)
(* Claims about the advisor                                                *)
(***************************************************************************)
AdvisorReturned == updateRecommendation # NoResult

\* the (file index, rule index) pairs of changedFiles that match
MatchedPairs ==
    {p \in (1..Len(changedFiles)) \X (1..Len(schemaAffectingFiles)) :
        PatternTest(schemaAffectingFiles[p[2]], changedFiles[p[1]])}

\* the largest confidence of a matched rule, 0 when nothing matches
FileConfidence ==
    IF MatchedPairs = {} THEN 0
    ELSE CHOOSE c \in {schemaAffectingFiles[p[2]].confidence : p \in MatchedPairs} :
            \A p \in MatchedPairs : schemaAffectingFiles[p[2]].confidence <= c

FileSchemas == UNION {Range(schemaAffectingFiles[p[2]].schemas) : p \in MatchedPairs}

\* the task-type confidence, 0 when the task type is not in the table
TaskConfidence ==
    IF taskType \in DOMAIN schemaAffectingTasks
    THEN schemaAffectingTasks[taskType].confidence ELSE 0

NoDuplicates(s) == \A i, j \in 1..Len(s) : s[i] = s[j] => i = j

ArchiveProjects == {NoMarkers, LaravelProject, RailsProject}

ArchiveOverrides == {"none", "symfony"}

InitArchive ==
    /\ ParseIdle
    /\ WorkflowIdle
    /\ project \in ArchiveProjects
    /\ sources = {}
    /\ clock = 0
    /\ DiskEmpty
    /\ NoCalls
    /\ detected = NoResult
    /\ AdvisorIdle
    /\ RaceIdle
    /\ ScanIdle

\* one more generateSchemas call on the same root
GenerateAgain ==
    /\ Len(saveCalls) < MaxArchiveRuns
    /\ \E override \in ArchiveOverrides, pause \in 0..MaxPause :
          RunGenerate(override, 0, pause)

\* a generateSchemas call during which one mkdir, read or write fails
GenerateOnFailingDisk ==
    /\ Len(saveCalls) < MaxArchiveRuns
    /\ \E fault \in FaultPoints :
          LET override == "none"
              gen == generateSchemasOnDisk(override, project, sources, clock, clock,
                                           current, versions, historyFile, fault)
          IN  /\ current' = gen.current
              /\ versions' = gen.versions
              /\ historyFile' = gen.historyFile
              /\ saveCalls' = saveCalls \o gen.saveCall
              /\ request' = [tool |-> "generate", framework |-> override, fault |-> fault]
              /\ response' = gen.outcome
              /\ UNCHANGED <<clock, integrationLog, project, sources, parseVars, workflow, advisorVars,
                             raceVars, scanVars, detected>>

NextArchive == GenerateAgain \/ GenerateOnFailingDisk

SpecArchive == InitArchive /\ [][NextArchive]_vars

(***************************************************************************)
(* Claims about the versions archive and current/                          *)
(***************************************************************************)
\* the snapshot directory versions/<key> holds exactly the documents and the
\* metadata of `schemas`
SnapshotHolds(key, schemas) ==
    /\ key \in DOMAIN versions
    /\ DOMAIN versions[key] = {VersionName(n) : n \in DOMAIN schemas}
    /\ \A n \in DOMAIN schemas : versions[key][VersionName(n)] = YamlDump("mapping", schemas[n])

\* current/ holds exactly the documents and the metadata of `schemas`
CurrentHolds(schemas) ==
    /\ DOMAIN current =
          {CurrentName(n) : n \in DOMAIN schemas \ {"metadata"}} \cup {MetadataName}
    /\ current[MetadataName] = YamlDump("mapping", schemas["metadata"])
    /\ \A n \in DOMAIN schemas \ {"metadata"} :
          current[CurrentName(n)] = YamlDump("mapping", schemas[n])

AllSavesReturned == \A i \in 1..Len(saveCalls) : saveCalls[i].returned

\* C11: every save writes its documents and metadata into a snapshot whose key
\* no earlier save used, and no save touches an existing snapshot: after N
\* successful saves the archive holds N snapshots, each with the content of
\* its own run.
C11_Original ==
    AllSavesReturned =>
      /\ Cardinality(DOMAIN versions) = Len(saveCalls)
      /\ \A i \in 1..Len(saveCalls) :
            SnapshotHolds(saveCalls[i].entry.version, saveCalls[i].saved)

\* C12: after successful generation runs current/ holds exactly the documents
\* and the metadata of the latest run, and the document set of every earlier
\* run is still in its version snapshot.
C12_Original ==
    (AllSavesReturned /\ Len(saveCalls) > 0) =>
      /\ CurrentHolds(saveCalls[Len(saveCalls)].saved)
      /\ \A i \in 1..(Len(saveCalls) - 1) :
            SnapshotHolds(saveCalls[i].entry.version, saveCalls[i].saved)

(***************************************************************************)
(* Claims about the tool-invocation boundary                               *)
(***************************************************************************)
PublicOperations ==
    {"generate_schemas", "get_schema_info", "check_schema_freshness", "auto_update_check"}

\* the response reports a failure as data
IsErrorResponse(r) == "isError" \in DOMAIN r /\ r.isError

\* the payload of the response carries a success boolean
HasSuccessBoolean(r) == "success" \in DOMAIN r /\ r.success \in BOOLEAN

\* C13: every call of one of the four public operations returns either an
\* isError response or a payload with an explicit success boolean, and a call
\* of an unknown tool returns an isError response.
C13_Original ==
    request # NoResult =>
      /\ request.tool \in PublicOperations =>
            IsErrorResponse(response) \/ HasSuccessBoolean(response)
      /\ request.tool \notin PublicOperations => IsErrorResponse(response)

(***************************************************************************)
(* Claims about persistence failures                                       *)
(***************************************************************************)
\* a step that is a generateSchemas call during which a mkdir or a write of
\* a document, of a snapshot file or of the ledger fails
PersistenceFailure ==
    /\ saveCalls' # saveCalls \/ request' # request
    /\ "fault" \in DOMAIN request'
    /\ request'.fault.pc # "readHistory"

\* C14: a generation during which a schema directory cannot be created or a
\* document, snapshot or ledger write fails is rejected: it returns no
\* success result and the ledger is left without an entry for it.
C14_PersistenceFailureRejects ==
    [][PersistenceFailure =>
         /\ response'.threw
         /\ historyFile' = historyFile
         /\ \A i \in (Len(saveCalls) + 1)..Len(saveCalls') : ~saveCalls'[i].returned]_vars

\* C14 witness: the ledger write of the second generation failed after its
\* documents and its snapshot were written; the ledger holds the first
\* generation's entry alone
C14_Witness ==
    /\ Len(saveCalls) = 2
    /\ "fault" \in DOMAIN request
    /\ request.fault.pc = "writeHistory"
    /\ response.threw
    /\ saveCalls[1].returned
    /\ ~saveCalls[2].returned
    /\ CurrentHolds(saveCalls[2].saved)
    /\ historyFile = YamlDump("list", <<saveCalls[1].entry>>)

(***************************************************************************)
(* Claims about repeated generation                                        *)
(***************************************************************************)
\* a step that is the second of two successful generateSchemas calls in a
\* row with the same override on the same project
SecondOfTwoRuns ==
    /\ request # NoResult
    /\ request.tool = "generate" /\ "fault" \notin DOMAIN request
    /\ ~response.threw
    /\ Len(saveCalls') = Len(saveCalls) + 1
    /\ request'.tool = "generate" /\ "fault" \notin DOMAIN request'
    /\ request'.framework = request.framework
    /\ ~response'.threw

\* a metadata record or result without its generation instant
WithoutInstant(r, field) == [r EXCEPT ![field] = "elided"]

ScanCap == 5000

MissingNode == [kind |-> "missing"]

FileNode(length, readable) == [kind |-> "file", length |-> length, readable |-> readable]

DirNode(listable, entries) == [kind |-> "dir", listable |-> listable, entries |-> entries]

\* the text of a file: a character for each position
ContentOf(file) == [i \in 1..file.length |-> i % 5]

\* mutant: an ellipsis marks a truncated content
TruncateWithEllipsis(content) ==
    IF Len(content) > ScanCap THEN SubSeq(content, 1, ScanCap) \o <<5>> ELSE content

\* content.substring(0, 5000)
Truncate(content) == SubSeq(content, 1, Min(Len(content), ScanCap))

ErrorObject(message) == [kind |-> "error", message |-> message]

EmptyMapping == [kind |-> "dir", entries |-> <<>>]

\* mutant: a file that cannot be read is recorded as an empty file
ReadEntrySwallowsError(file) ==
    IF file.readable
    THEN [kind |-> "file", size |-> file.length, content |-> Truncate(ContentOf(file))]
    ELSE [kind |-> "file", size |-> 0, content |-> <<>>]

\* the inner try/catch: readFile and stat, then the file record, or
\* {error: message}
ReadEntry(file) ==
    IF file.readable
    THEN [kind |-> "file", size |-> file.length, content |-> Truncate(ContentOf(file))]
    ELSE ErrorObject("EACCES")

\* mutant: a subdirectory is recorded whatever its scan returned
NonEmptyOrNot(result) == TRUE

\* Object.keys(subFiles).length > 0
NonEmpty(result) == result.kind = "error" \/ DOMAIN result.entries # {}

\* scanDirectory(dirPath, extension) where dirPath leads to `node`
RECURSIVE scanDirectoryAt(_, _)
scanDirectoryAt(node, extension) ==
    IF node.kind = "missing" THEN EmptyMapping
    ELSE IF node.kind = "file" THEN ErrorObject("ENOTDIR")
    ELSE IF ~node.listable THEN ErrorObject("EACCES")
    ELSE LET names == DOMAIN node.entries
             isFile(n) == node.entries[n].kind = "file"
             recorded == {n \in names :
                             IF isFile(n) THEN EndsWith(n, extension)
                             ELSE NonEmpty(scanDirectoryAt(node.entries[n], extension))}
         IN  [kind |-> "dir",
              entries |-> [n \in recorded |->
                             IF isFile(n) THEN ReadEntry(node.entries[n])
                             ELSE scanDirectoryAt(node.entries[n], extension)]]

(***************************************************************************)
(* Specification of the scanner: one scanDirectory call on every tree of   *)
(* up to three levels                                                      *)
(***************************************************************************)
\* file lengths: empty, one character, and around the cap
FileLengths == {0, 1} \cup ((ScanCap - MaxExcess)..(ScanCap + MaxExcess))

FileNodes == {FileNode(l, TRUE) : l \in FileLengths} \cup {FileNode(1, FALSE)}

\* a directory with the entries that are not MissingNode
DirOf(listable, named) ==
    DirNode(listable, [n \in {m \in DOMAIN named : named[m] # MissingNode} |-> named[n]])

Optional(nodes) == nodes \cup {MissingNode}

\* directories of the third level: a .php file or none, a .txt file or none
DeepDirectories ==
    {DirOf(TRUE, [n \in {<<"Helper", ".php">>, <<"todo", ".txt">>} |->
                    IF n = <<"Helper", ".php">> THEN php ELSE txt]) :
        php \in Optional({FileNode(1, TRUE)}), txt \in Optional({FileNode(1, TRUE)})}

\* subdirectories: a .php file or none, a .txt file or none, a directory of
\* the third level or none; or unlistable
SubDirectories ==
    {DirOf(TRUE, [n \in {<<"Post", ".php">>, <<"notes", ".txt">>, <<"Deep", "">>} |->
                    IF n = <<"Post", ".php">> THEN php
                    ELSE IF n = <<"notes", ".txt">> THEN txt ELSE deep]) :
        php \in Optional(FileNodes), txt \in Optional({FileNode(1, TRUE)}),
        deep \in Optional(DeepDirectories)}
    \cup {DirNode(FALSE, <<>>)}

\* the scanned directory: missing, unlistable, or a .php file or none and a
\* subdirectory or none
ScanTrees ==
    {DirOf(TRUE, [n \in {<<"User", ".php">>, <<"Concerns", "">>} |->
                    IF n = <<"User", ".php">> THEN php ELSE sub]) :
        php \in Optional(FileNodes), sub \in Optional(SubDirectories)}
    \cup {MissingNode, DirNode(FALSE, <<>>)}

\* the extension arguments: the default and the one of the Laravel generators
ScanExtensions == {"", ".php"}

InitScan ==
    /\ ParseIdle
    /\ WorkflowIdle
    /\ tree \in ScanTrees
    /\ scanned = NoResult
    /\ DetectorIdle
    /\ AdvisorIdle
    /\ GeneratorIdle
    /\ RaceIdle

ScanDirectory ==
    /\ scanned = NoResult
    /\ \E extension \in ScanExtensions :
          scanned' = [extension |-> extension, result |-> scanDirectoryAt(tree, extension)]
    /\ UNCHANGED <<tree, detectVars, advisorVars, sources, parseVars, workflow, clock, diskVars, callVars, raceVars>>

NextScan == ScanDirectory

SpecScan == InitScan /\ [][NextScan]_vars

(***************************************************************************)
(* Claims about the scanner                                                *)
(***************************************************************************)
Scanned == scanned # NoResult

\* the file records of a result satisfy the truncation law against the
\* files of the node they were read from, subdirectories included
RECURSIVE TruncationLaw(_, _)
TruncationLaw(node, result) ==
    result.kind = "dir" =>
      \A n \in DOMAIN result.entries :
         LET entry == result.entries[n]
             child == node.entries[n]
         IN  /\ entry.kind = "file" =>
                   /\ Len(entry.content) <= ScanCap
                   /\ Len(entry.content) <= child.length
                   /\ entry.content = SubSeq(ContentOf(child), 1, Len(entry.content))
                   /\ child.length <= ScanCap => entry.content = ContentOf(child)
             /\ entry.kind = "dir" => TruncationLaw(child, entry)

\* C16: the content recorded for a scanned file is a prefix of the file of
\* at most ScanCap characters, and the whole file when the file is not
\* longer than ScanCap, at every depth of the scan.
C16_TruncationInvariant ==
    Scanned => TruncationLaw(tree, scanned.result)

\* C16 witness: in a subdirectory, a file one character longer than the cap
\* recorded with ScanCap characters, beside a top-level file of exactly
\* ScanCap characters recorded whole
C16_Witness ==
    /\ Scanned
    /\ tree.kind = "dir" /\ tree.listable
    /\ DOMAIN scanned.result.entries = {<<"User", ".php">>, <<"Concerns", "">>}
    /\ scanned.result.entries[<<"User", ".php">>].kind = "file"
    /\ tree.entries[<<"User", ".php">>].length = ScanCap
    /\ Len(scanned.result.entries[<<"User", ".php">>].content) = ScanCap
    /\ scanned.result.entries[<<"Concerns", "">>].kind = "dir"
    /\ <<"Post", ".php">> \in DOMAIN scanned.result.entries[<<"Concerns", "">>].entries
    /\ tree.entries[<<"Concerns", "">>].entries[<<"Post", ".php">>].length = ScanCap + 1
    /\ scanned.result.entries[<<"Concerns", "">>].entries[<<"Post", ".php">>].kind = "file"
    /\ Len(scanned.result.entries[<<"Concerns", "">>].entries[<<"Post", ".php">>].content)
          = ScanCap

\* the directory holds, at some depth, a file that the filter lets through
RECURSIVE HoldsMatching(_, _)
HoldsMatching(node, extension) ==
    /\ node.kind = "dir"
    /\ node.listable
    /\ \E n \in DOMAIN node.entries :
          IF node.entries[n].kind = "file" THEN EndsWith(n, extension)
          ELSE HoldsMatching(node.entries[n], extension)

\* every file of a listable directory that the filter lets through has its
\* entry, a file record of its size or {error} when it cannot be read, and
\* so has every file of its subdirectories
RECURSIVE EveryEntryRecorded(_, _, _)
EveryEntryRecorded(node, result, extension) ==
    /\ result.kind = "dir"
    /\ \A n \in DOMAIN node.entries :
          LET child == node.entries[n]
          IN  IF child.kind = "file"
              THEN EndsWith(n, extension) =>
                     /\ n \in DOMAIN result.entries
                     /\ result.entries[n].kind = IF child.readable THEN "file" ELSE "error"
                     /\ child.readable => result.entries[n].size = child.length
              ELSE HoldsMatching(child, extension) =>
                     /\ n \in DOMAIN result.entries
                     /\ EveryEntryRecorded(child, result.entries[n], extension)

\* C17: scanning a directory that does not exist returns the empty mapping,
\* and in a directory that can be listed a file that cannot be read becomes
\* {error} in its own entry while every other file and subdirectory is
\* recorded.
C17_ScanTolerant ==
    Scanned =>
      /\ tree.kind = "missing" => scanned.result = EmptyMapping
      /\ (tree.kind = "dir" /\ tree.listable) =>
            EveryEntryRecorded(tree, scanned.result, scanned.extension)

\* C17 witness: the top-level file cannot be read and has an {error} entry,
\* the file of the subdirectory is recorded with its content
C17_Witness ==
    /\ Scanned
    /\ tree.kind = "dir" /\ tree.listable
    /\ DOMAIN tree.entries = {<<"User", ".php">>, <<"Concerns", "">>}
    /\ ~tree.entries[<<"User", ".php">>].readable
    /\ DOMAIN scanned.result.entries = {<<"User", ".php">>, <<"Concerns", "">>}
    /\ scanned.result.entries[<<"User", ".php">>] = ErrorObject("EACCES")
    /\ scanned.result.entries[<<"Concerns", "">>].kind = "dir"
    /\ <<"Post", ".php">> \in DOMAIN scanned.result.entries[<<"Concerns", "">>].entries
    /\ scanned.result.entries[<<"Concerns", "">>].entries[<<"Post", ".php">>].kind = "file"
    /\ scanned.result.entries[<<"Concerns", "">>].entries[<<"Post", ".php">>].size = 1

(***************************************************************************)
(* Specification of racing saves: two callers generate on the same project *)
(* root, each with its own override; their saveSchemas calls advance one   *)
(* awaited operation at a time, in any interleaving.                       *)
(***************************************************************************)
Callers == {"A", "B"}

\* the framework argument of each caller
CallerOverride(p) == IF p = "A" THEN "rails" ELSE "django"

InitRace ==
    /\ ParseIdle
    /\ WorkflowIdle
    /\ project = NoMarkers
    /\ sources = {}
    /\ clock = 0
    /\ DiskEmpty
    /\ NoCalls
    /\ detected = NoResult
    /\ AdvisorIdle
    /\ RaceIdle
    /\ ScanIdle

RaceTick ==
    /\ clock < MaxRaceClock
    /\ clock' = clock + 1
    /\ UNCHANGED <<project, sources, parseVars, workflow, diskVars, callVars, advisorVars, raceVars, scanVars,
                   detected>>

\* generateSchemas up to its saveSchemas call: the schemas are built
StartSave ==
    \E p \in Callers \ DOMAIN writers :
      LET detection == ResolveFramework(CallerOverride(p), project)
          schemas == BuildSchemas(detection.value, clock, sources, project.composer)
      IN  /\ writers' = [q \in DOMAIN writers \cup {p} |->
                            IF q = p THEN SaveStart(schemas) ELSE writers[q]]
          /\ UNCHANGED <<lastWriter, project, sources, parseVars, workflow, clock, diskVars, callVars,
                         advisorVars, scanVars, detected>>

\* the next awaited operation of one saveSchemas call; a call that ends is
\* added to saveCalls
SaveOperation ==
    \E p \in DOMAIN writers :
      LET w == writers[p]
          next == SaveStep(w, [current |-> current, versions |-> versions,
                               historyFile |-> historyFile], clock, FALSE)
          target == IF w.pc = "writeMetadata" THEN {MetadataName}
                    ELSE IF w.pc = "writeCurrent"
                    THEN {CurrentName(SchemaKeys(w.schemas)[w.i])}
                    ELSE {}
      IN  /\ w.pc \notin {"returned", "threw"}
          /\ writers' = [writers EXCEPT ![p] = next.writer]
          /\ current' = next.disk.current
          /\ versions' = next.disk.versions
          /\ historyFile' = next.disk.historyFile
          /\ lastWriter' = [f \in DOMAIN lastWriter \cup target |->
                               IF f \in target THEN p ELSE lastWriter[f]]
          /\ saveCalls' = IF next.writer.pc \in {"returned", "threw"}
                          THEN Append(saveCalls,
                                      [entry |-> HistoryEntryOf(next.writer),
                                       returned |-> next.writer.pc = "returned",
                                       saved |-> w.schemas])
                          ELSE saveCalls
          /\ UNCHANGED <<request, response, integrationLog, project, sources, parseVars, workflow, clock,
                         advisorVars, scanVars, detected>>

NextRace == RaceTick \/ StartSave \/ SaveOperation

SpecRace == InitRace /\ [][NextRace]_vars

(***************************************************************************)
(* Claims about racing saves                                               *)
(***************************************************************************)
\* both saveSchemas calls have returned
BothCompleted ==
    /\ DOMAIN writers = Callers
    /\ \A p \in Callers : writers[p].pc = "returned"

\* C18: after two racing saves have completed, current/ holds the four
\* documents and the metadata of the save that wrote to current/ last.
C18_Original ==
    BothCompleted => CurrentHolds(writers[lastWriter[MetadataName]].schemas)

\* C19: after two saves have completed, however their ledger reads and
\* writes interleaved, the ledger holds one entry for each of them.
C19_Original ==
    BothCompleted =>
      /\ LedgerIsList
      /\ Len(historyFile.doc) = Len(saveCalls)
      /\ \A i \in 1..Len(saveCalls) :
            \E j \in 1..Len(historyFile.doc) : historyFile.doc[j] = saveCalls[i].entry

(***************************************************************************)
(* Claims about the framework override                                     *)
(***************************************************************************)
SupportedFrameworks == {"laravel", "rails", "django", "express"}

\* the framework tag of the documents of the generator the switch selects
GeneratorTag(type) == IF type \in SupportedFrameworks THEN type ELSE "unknown"

\* C20: a generate() call with an override succeeds whatever the marker
\* files are; the metadata and the result carry the override as framework,
\* the documents are those of the override's generator, and an override
\* that names no supported framework gives the four placeholder documents.
C20_OverrideWins ==
    (request # NoResult /\ request.tool = "generate" /\ request.framework # "none") =>
      /\ ~response.threw
      /\ response.value.framework = OverrideInfo(request.framework)
      /\ current[MetadataName].doc.framework = OverrideInfo(request.framework)
      /\ \A n \in SchemaNames :
            /\ CurrentDocument(n).framework = GeneratorTag(request.framework)
            /\ request.framework # "laravel" =>
                  CurrentDocument(n) =
                     PlaceholderSchemas(GeneratorTag(request.framework))[n]

\* C20 witness: the markers are those of a Laravel project and the override
\* names rails; rails is recorded and the rails placeholders are written
C20_Witness ==
    /\ request # NoResult
    /\ request.tool = "generate"
    /\ request.framework = "rails"
    /\ project = LaravelProject
    /\ ~response.threw
    /\ current[MetadataName].doc.framework.type = "rails"
    /\ CurrentDocument("database") = PlaceholderSchemas("rails")["database"]

(***************************************************************************)
(* Further claims about the advisor                                        *)
(***************************************************************************)
\* the orders in which a list of files can be passed
Reorderings(files) ==
    {[i \in 1..Len(files) |-> files[p[i]]] :
        p \in {q \in [1..Len(files) -> 1..Len(files)] :
                  \A i, j \in 1..Len(files) : q[i] = q[j] => i = j}}

\* C23: the file evidence is accumulated over all (file, rule) matches: its
\* confidence is the maximum over the matched rules, its schemas are the union
\* of the matched rules' schemas without duplicates (a file matching several
\* rules contributes all of them), and the required flag, the confidence and
\* the set of schemas of the result are the same for every order of
\* changedFiles.
C23_EvidenceAccumulates ==
    AdvisorReturned =>
      LET ev == FileLoop(EmptyEvidence, changedFiles)
      IN  /\ ev.maxConfidence = FileConfidence
          /\ Range(ev.allAffectedSchemas) = FileSchemas
          /\ NoDuplicates(ev.allAffectedSchemas)
          /\ updateRecommendation.reason.from = "files" =>
                /\ updateRecommendation.confidence = FileConfidence
                /\ Range(updateRecommendation.affectedSchemas) = FileSchemas
                /\ NoDuplicates(updateRecommendation.affectedSchemas)
          /\ \A files \in Reorderings(changedFiles) :
                LET other == shouldAutoUpdate(taskType, files)
                IN  /\ other.required = updateRecommendation.required
                    /\ other.confidence = updateRecommendation.confidence
                    /\ Range(other.affectedSchemas)
                          = Range(updateRecommendation.affectedSchemas)

\* C23 witness: the files win, one of them matches two rules, and the other
\* order of the list gives the schemas in another order
C23_Witness ==
    /\ AdvisorReturned
    /\ updateRecommendation.reason.from = "files"
    /\ \E p1, p2 \in MatchedPairs : p1[1] = p2[1] /\ p1[2] # p2[2]
    /\ \E files \in Reorderings(changedFiles) :
          shouldAutoUpdate(taskType, files).affectedSchemas
            # updateRecommendation.affectedSchemas

\* C28: every recommendation has required exactly when its confidence is
\* above 0.5, a confidence between 0 and 1, and affectedSchemas among the four
\* schema names, whatever the task type and the changed files.
C28_RecommendationShape ==
    AdvisorReturned =>
      /\ updateRecommendation.required = (updateRecommendation.confidence > 50)
      /\ updateRecommendation.confidence \in 0..100
      /\ Range(updateRecommendation.affectedSchemas) \subseteq SchemaNames

\* C28 witness: a file-derived recommendation below the threshold, and the
\* task-type entry that sits on it and is not required
C28_Witness ==
    /\ AdvisorReturned
    /\ \/ /\ updateRecommendation.reason.from = "files"
          /\ updateRecommendation.confidence = 40
          /\ ~updateRecommendation.required
       \/ /\ updateRecommendation.reason.from = "task"
          /\ updateRecommendation.confidence = 50
          /\ ~updateRecommendation.required
          /\ MatchedPairs # {}

(***************************************************************************)
(* Claims about freshness and the skipped generation                       *)
(***************************************************************************)
\* metadata.yml of current/ as getSchemaInfo reads it
StoredMetadata == ReadYaml(FileOf(current, MetadataName))

\* metadata.yml exists and holds the metadata of a run
MetadataExists ==
    /\ ~StoredMetadata.threw
    /\ StoredMetadata.value.kind = "mapping"

\* a step of the check_schema_freshness handler
CheckFreshnessCall == clock' = clock /\ request'.tool = "check_schema_freshness"

\* C26: when metadata exists the freshness result is a function of the stored
\* generatedAt, the current time and maxAgeMinutes: isFresh exactly when the
\* age is strictly less than maxAgeMinutes (an equal age is stale), the reason
\* is "Schemas are fresh" exactly when isFresh and "Schemas are stale"
\* otherwise, and lastGenerated is the stored generatedAt.
C26_FreshnessLaw ==
    [][(CheckFreshnessCall /\ MetadataExists) =>
          LET generatedAt == StoredMetadata.value.doc.generatedAt
              age == clock - generatedAt.instant
          IN  /\ response'.isFresh = (age < request'.maxAge)
              /\ response'.reason = IF age < request'.maxAge
                                    THEN "Schemas are fresh" ELSE "Schemas are stale"
              /\ response'.lastGenerated = generatedAt
              /\ UNCHANGED diskVars]_vars

\* C26 witness: a freshness check answered stale at an age equal to the limit
C26_Witness ==
    /\ request # NoResult
    /\ request.tool = "check_schema_freshness"
    /\ MetadataExists
    /\ response.reason = "Schemas are stale"
    /\ response.ageMinutes = request.maxAge
    /\ clock - StoredMetadata.value.doc.generatedAt.instant = request.maxAge

\* a step of the generate_schemas handler that answers with skipped
SkippedCall ==
    /\ clock' = clock
    /\ request'.tool = "generate_schemas"
    /\ ~response'.isError
    /\ response'.skipped

\* C24: a generate_schemas call that is skipped changes nothing on disk
\* (current/, the version snapshots, the ledger and the integration log are
\* as before) and answers success true, skipped true and lastGenerated equal
\* to the generatedAt of the existing metadata.
C24_SkipChangesNothing ==
    [][SkippedCall =>
          /\ UNCHANGED <<current, versions, historyFile, integrationLog>>
          /\ saveCalls' = saveCalls
          /\ response'.success = TRUE
          /\ response'.skipped = TRUE
          /\ MetadataExists
          /\ response'.lastGenerated = StoredMetadata.value.doc.generatedAt]_vars

\* C24 witness: a skipped call after a generation that wrote the layout
C24_Witness ==
    /\ request # NoResult
    /\ request.tool = "generate_schemas"
    /\ ~request.force
    /\ ~response.isError
    /\ response.skipped
    /\ Len(saveCalls) > 0
    /\ Len(integrationLog) = Len(saveCalls)
    /\ MetadataExists
    /\ response.lastGenerated = StoredMetadata.value.doc.generatedAt

(***************************************************************************)
(* Claims about the pruning of the scanner                                 *)
(***************************************************************************)
\* no mapping below the top of a result is empty
RECURSIVE NoEmptyMappingIn(_)
NoEmptyMappingIn(result) ==
    result.kind = "dir" =>
      \A n \in DOMAIN result.entries :
         LET entry == result.entries[n]
         IN  /\ entry.kind = "dir" => DOMAIN entry.entries # {}
             /\ NoEmptyMappingIn(entry)

\* a directory that holds only files the filter rejects and directories of
\* the same kind, or nothing at all
RECURSIVE HoldsNothing(_, _)
HoldsNothing(node, extension) ==
    /\ node.kind = "dir"
    /\ node.listable
    /\ \A n \in DOMAIN node.entries :
          IF node.entries[n].kind = "file" THEN ~EndsWith(n, extension)
          ELSE HoldsNothing(node.entries[n], extension)

\* the subdirectories that hold nothing have no entry, at every depth
RECURSIVE Pruned(_, _, _)
Pruned(node, result, extension) ==
    result.kind = "dir" =>
      \A n \in DOMAIN node.entries :
         LET child == node.entries[n]
         IN  child.kind = "dir" =>
               IF HoldsNothing(child, extension)
               THEN n \notin DOMAIN result.entries
               ELSE /\ n \in DOMAIN result.entries
                    /\ Pruned(child, result.entries[n], extension)

\* C25: the structural scan prunes empty subtrees: no nested mapping of the
\* output is empty at any depth, and a subdirectory that holds only files the
\* filter rejects, or only empty subdirectories, has no entry.
C25_EmptySubtreesPruned ==
    Scanned =>
      /\ NoEmptyMappingIn(scanned.result)
      /\ (tree.kind = "dir" /\ tree.listable) =>
            Pruned(tree, scanned.result, scanned.extension)

\* C25 witness: a subdirectory with a rejected file and a third-level
\* directory with a rejected file is absent, beside a recorded file
C25_Witness ==
    /\ Scanned
    /\ scanned.extension = ".php"
    /\ tree.kind = "dir" /\ tree.listable
    /\ DOMAIN tree.entries = {<<"User", ".php">>, <<"Concerns", "">>}
    /\ tree.entries[<<"Concerns", "">>].listable
    /\ DOMAIN tree.entries[<<"Concerns", "">>].entries = {<<"notes", ".txt">>, <<"Deep", "">>}
    /\ DOMAIN tree.entries[<<"Concerns", "">>].entries[<<"Deep", "">>].entries
          = {<<"todo", ".txt">>}
    /\ DOMAIN scanned.result.entries = {<<"User", ".php">>}

\* C25 witness of the other side: a third-level file kept under two
\* directories that hold nothing else
C25_Kept ==
    /\ Scanned
    /\ scanned.extension = ".php"
    /\ tree.kind = "dir" /\ tree.listable
    /\ DOMAIN tree.entries = {<<"Concerns", "">>}
    /\ tree.entries[<<"Concerns", "">>].listable
    /\ DOMAIN tree.entries[<<"Concerns", "">>].entries = {<<"Deep", "">>}
    /\ DOMAIN scanned.result.entries = {<<"Concerns", "">>}
    /\ DOMAIN scanned.result.entries[<<"Concerns", "">>].entries = {<<"Deep", "">>}

(***************************************************************************)
(* Claims about the ledger and the snapshots it names                      *)
(***************************************************************************)
\* the entries of history/changes.yml, none when it is not a list
LedgerEntries == IF LedgerIsList THEN Range(historyFile.doc) ELSE {}

\* the saveSchemas calls that wrote the ledger entry e
RunsOf(e) == {i \in 1..Len(saveCalls) : saveCalls[i].returned /\ saveCalls[i].entry = e}

\* the snapshot directory named by e exists with the four documents and a
\* metadata file
SnapshotComplete(e) ==
    /\ e.version \in DOMAIN versions
    /\ {VersionName(n) : n \in Range(SchemaOrder) \cup {"metadata"}}
          \subseteq DOMAIN versions[e.version]

\* C27: in every state of the persisted layout, after failed saves too, every
\* ledger entry names a version key whose snapshot directory exists and holds
\* the four documents and the metadata of the run that wrote the entry, and
\* the entry's version is "v" followed by its timestamp.
C27_Original ==
    \A e \in LedgerEntries :
       /\ e.version = VersionKey(e.timestamp)
       /\ SnapshotComplete(e)
       /\ \A i \in RunsOf(e) : SnapshotHolds(e.version, saveCalls[i].saved)

\* the part of C27 that does not look into the files: the snapshot named by
\* an entry exists and is complete
C27_SnapshotsExist ==
    \A e \in LedgerEntries :
       /\ e.version = VersionKey(e.timestamp)
       /\ SnapshotComplete(e)
       /\ RunsOf(e) # {}

(***************************************************************************)
(* Migration files: parseMigrationFile and scanLaravelMigrations           *)
(*                                                                         *)
(* The text of a migration file is the sequence of its Schema:: statements *)
(* in textual order. A Schema::create or Schema::table statement names a   *)
(* table and declares a column in its closure.                             *)
(***************************************************************************)
TableNames == {"users", "posts"}

NoColumn == [name |-> "none", type |-> "none"]

\* Schema::create('t', ...{ $table->bigIncrements('id'); }),
\* Schema::table('t', ...{ $table->string('title'); }) and
\* Schema::dropIfExists('users')
SchemaStatements ==
    {[kind |-> "create", table |-> t,
      column |-> [name |-> "id", type |-> "bigIncrements"]] : t \in TableNames}
    \cup {[kind |-> "table", table |-> t,
           column |-> [name |-> "title", type |-> "string"]] : t \in TableNames}
    \cup {[kind |-> "dropIfExists", table |-> "users", column |-> NoColumn]}

\* content.match(/Schema::<kind>\(['"]([^'"]+)['"]/): the position of the
\* first statement of that kind, 0 for no match
SchemaMatch(content, kind) ==
    LET hits == {i \in 1..Len(content) : content[i].kind = kind}
    IN  IF hits = {} THEN 0 ELSE CHOOSE i \in hits : \A j \in hits : i <= j

\* columns[columnInfo.name] = columnInfo for every $table-> line of the text
RECURSIVE ColumnLoop(_, _)
ColumnLoop(columns, content) ==
    IF content = <<>> THEN columns
    ELSE LET columnInfo == Head(content).column
         IN  ColumnLoop(IF columnInfo = NoColumn THEN columns
                        ELSE [n \in DOMAIN columns \cup {columnInfo.name} |->
                                IF n = columnInfo.name THEN columnInfo ELSE columns[n]],
                        Tail(content))

extractColumnsFromMigration(content) == ColumnLoop(<<>>, content)

\* parseMigrationFile's `return null`
NullInfo == [kind |-> "null"]

TableInfo(name, type, filename, content) ==
    [kind |-> "table", name |-> name, type |-> type, filename |-> filename,
     columns |-> extractColumnsFromMigration(content), foreignKeys |-> <<>>]

\* mutant: the statement that comes first in the text decides
parseMigrationFileEarliest(content, filename) ==
    LET createTableMatch == SchemaMatch(content, "create")
        tableMatch == SchemaMatch(content, "table")
    IN  IF createTableMatch # 0 /\ (tableMatch = 0 \/ createTableMatch < tableMatch)
        THEN TableInfo(content[createTableMatch].table, "create", filename, content)
        ELSE IF tableMatch # 0
        THEN TableInfo(content[tableMatch].table, "modify", filename, content)
        ELSE NullInfo

parseMigrationFile(content, filename) ==
    LET createTableMatch == SchemaMatch(content, "create")
        tableMatch == SchemaMatch(content, "table")
    IN  IF createTableMatch # 0
        THEN TableInfo(content[createTableMatch].table, "create", filename, content)
        ELSE IF tableMatch # 0
        THEN TableInfo(content[tableMatch].table, "modify", filename, content)
        ELSE NullInfo

\* mutant: a table seen before keeps its entry and gains the new columns
PutTableMerged(mapping, info) ==
    [n \in DOMAIN mapping \cup {info.name} |->
        IF n # info.name THEN mapping[n]
        ELSE IF n \notin DOMAIN mapping THEN info
        ELSE [mapping[n] EXCEPT !.columns =
                [c \in DOMAIN mapping[n].columns \cup DOMAIN info.columns |->
                    IF c \in DOMAIN info.columns THEN info.columns[c]
                    ELSE mapping[n].columns[c]]]]

\* tables[tableInfo.name] = tableInfo
PutTable(mapping, info) ==
    [n \in DOMAIN mapping \cup {info.name} |->
        IF n = info.name THEN info ELSE mapping[n]]

\* for (const file of files): a file that cannot be read throws out of the
\* loop into the catch, which keeps the tables gathered so far
RECURSIVE MigrationLoop(_, _)
MigrationLoop(mapping, files) ==
    IF files = <<>> THEN mapping
    ELSE LET file == Head(files)
         IN  IF ~EndsWith(file.name, ".php") THEN MigrationLoop(mapping, Tail(files))
             ELSE IF ~file.readable THEN mapping
             ELSE LET info == parseMigrationFile(file.content, file.name)
                  IN  MigrationLoop(IF info = NullInfo THEN mapping
                                    ELSE PutTable(mapping, info),
                                    Tail(files))

\* scanLaravelMigrations on the directory `dir`
scanLaravelMigrationsIn(dir) ==
    IF ~dir.exists THEN <<>> ELSE MigrationLoop(<<>>, dir.files)

(***************************************************************************)
(* Specification of the migration scan: a directory of up to two files,    *)
(* one parseMigrationFile or scanLaravelMigrations call on it              *)
(***************************************************************************)
MigrationContents == SeqsUpTo(SchemaStatements, MaxStatements)

MigrationNames == <<"2024_01_01_000000_first", "2024_01_02_000000_second">>

CreateUsers == CHOOSE st \in SchemaStatements : st.kind = "create" /\ st.table = "users"

\* the files that can be the i-th entry of the directory: a migration with
\* any content, a file that is no .php file, a migration that cannot be read
MigrationFilesAt(i) ==
    {[name |-> <<MigrationNames[i], ".php">>, readable |-> TRUE, content |-> c] :
        c \in MigrationContents}
    \cup {[name |-> <<MigrationNames[i], ".bak">>, readable |-> TRUE,
           content |-> <<CreateUsers>>],
          [name |-> <<MigrationNames[i], ".php">>, readable |-> FALSE,
           content |-> <<CreateUsers>>]}

MigrationDirectories ==
    {[exists |-> FALSE, files |-> <<>>], [exists |-> TRUE, files |-> <<>>]}
    \cup {[exists |-> TRUE, files |-> <<f>>] : f \in MigrationFilesAt(1)}
    \cup {[exists |-> TRUE, files |-> <<f, g>>] :
            f \in MigrationFilesAt(1), g \in MigrationFilesAt(2)}

InitMigrations ==
    /\ migrations \in MigrationDirectories
    /\ tableInfo = NoResult
    /\ tables = NoResult
    /\ routeContent = <<>>
    /\ routes = NoResult
    /\ WorkflowIdle
    /\ DetectorIdle
    /\ AdvisorIdle
    /\ GeneratorIdle
    /\ RaceIdle
    /\ ScanIdle

ParseMigrationFile ==
    /\ tableInfo = NoResult
    /\ tables = NoResult
    /\ \E i \in 1..Len(migrations.files) :
          /\ migrations.files[i].readable
          /\ tableInfo' = [file |-> i,
                           result |-> parseMigrationFile(migrations.files[i].content,
                                                         migrations.files[i].name)]
    /\ UNCHANGED <<migrations, tables, routeContent, routes, workflow, detectVars,
                   advisorVars, sources, clock, diskVars, callVars, raceVars, scanVars>>

ScanLaravelMigrations ==
    /\ tableInfo = NoResult
    /\ tables = NoResult
    /\ tables' = Return(scanLaravelMigrationsIn(migrations))
    /\ UNCHANGED <<migrations, tableInfo, routeContent, routes, workflow, detectVars,
                   advisorVars, sources, clock, diskVars, callVars, raceVars, scanVars>>

NextMigrations == ParseMigrationFile \/ ScanLaravelMigrations

SpecMigrations == InitMigrations /\ [][NextMigrations]_vars

(***************************************************************************)
(* Claims about the migration scan                                         *)
(***************************************************************************)
FileParsed == tableInfo # NoResult

ParsedContent == migrations.files[tableInfo.file].content

\* the create-table and modify-table statements of a text, in textual order
TableStatements(content) == SelectSeq(content, LAMBDA st : st.kind \in {"create", "table"})

TypeOf(st) == IF st.kind = "create" THEN "create" ELSE "modify"

\* C21 as stated: one TableInfo per migration file at most, and with several
\* create-table or modify-table statements its name and type are those of
\* the earliest statement of the text.
C21_Original ==
    FileParsed =>
      LET statements == TableStatements(ParsedContent)
      IN  IF statements = <<>> THEN tableInfo.result = NullInfo
          ELSE /\ tableInfo.result.kind = "table"
               /\ tableInfo.result.name = statements[1].table
               /\ tableInfo.result.type = TypeOf(statements[1])

\* C21, corrected: one TableInfo per migration file at most; its name and
\* type are those of the earliest create-table statement when the file has
\* one, wherever it stands, and those of the earliest modify-table statement
\* otherwise; its columns are gathered from all statements of the file.
C21_CreateBeforeModify ==
    FileParsed =>
      LET statements == TableStatements(ParsedContent)
          creates == SelectSeq(ParsedContent, LAMBDA st : st.kind = "create")
          chosen == IF creates # <<>> THEN creates[1] ELSE statements[1]
      IN  IF statements = <<>> THEN tableInfo.result = NullInfo
          ELSE /\ tableInfo.result.kind = "table"
               /\ tableInfo.result.name = chosen.table
               /\ tableInfo.result.type = TypeOf(chosen)
               /\ DOMAIN tableInfo.result.columns
                    = {statements[i].column.name : i \in 1..Len(statements)}

\* C21 witness: a modify-table statement stands before a create-table
\* statement of another table, and the TableInfo is that of the latter
C21_Witness ==
    /\ FileParsed
    /\ Len(ParsedContent) = 2
    /\ ParsedContent[1].kind = "table"
    /\ ParsedContent[2].kind = "create"
    /\ ParsedContent[1].table # ParsedContent[2].table
    /\ tableInfo.result.kind = "table"
    /\ tableInfo.result.name = ParsedContent[2].table
    /\ tableInfo.result.type = "create"

MigrationsScanned == tables # NoResult

\* the files the scan processes: up to the first migration that cannot be
\* read, those named *.php
RECURSIVE Processed(_)
Processed(files) ==
    IF files = <<>> THEN <<>>
    ELSE IF ~EndsWith(Head(files).name, ".php") THEN Processed(Tail(files))
    ELSE IF ~Head(files).readable THEN <<>>
    ELSE <<Head(files)>> \o Processed(Tail(files))

\* the TableInfo of each processed file that has one, in processing order
FoundTables ==
    SelectSeq([i \in 1..Len(Processed(migrations.files)) |->
                  parseMigrationFile(Processed(migrations.files)[i].content,
                                     Processed(migrations.files)[i].name)],
              LAMBDA info : info # NullInfo)

\* C29: the tables mapping has one entry for each distinct table name found
\* in the migration files, the entry's name is its key, and when several
\* files name the same table the entry is the TableInfo of the file
\* processed last, as a whole.
C29_LastFileWins ==
    MigrationsScanned =>
      /\ DOMAIN tables.value = {FoundTables[i].name : i \in 1..Len(FoundTables)}
      /\ \A n \in DOMAIN tables.value :
            /\ tables.value[n].name = n
            /\ \E i \in 1..Len(FoundTables) :
                  /\ FoundTables[i].name = n
                  /\ \A j \in (i + 1)..Len(FoundTables) : FoundTables[j].name # n
                  /\ tables.value[n] = FoundTables[i]

\* C29 witness: two files name the same table with different columns, and the
\* entry is the TableInfo of the second
C29_Witness ==
    /\ MigrationsScanned
    /\ Len(FoundTables) = 2
    /\ FoundTables[1].name = FoundTables[2].name
    /\ DOMAIN FoundTables[1].columns # DOMAIN FoundTables[2].columns
    /\ ~(DOMAIN FoundTables[1].columns \subseteq DOMAIN FoundTables[2].columns)
    /\ DOMAIN tables.value = {FoundTables[1].name}
    /\ tables.value[FoundTables[1].name] = FoundTables[2]

(***************************************************************************)
(* Routes files: parsePhpRoutes and parseRouteDefinition                   *)
(*                                                                         *)
(* The text of a routes file is a sequence of tokens: a route call         *)
(* Route::get('/users', 'UserController@index') without its terminator,    *)
(* the opening of a group Route::group(['prefix' => 'admin'], function ()  *)
(* {, its closing }), and the statement terminator ";".                    *)
(***************************************************************************)
RouteCall(method, path, controller) ==
    [token |-> "route", method |-> method, path |-> path, controller |-> controller]

GroupOpen == [token |-> "group", method |-> "group", path |-> "none", controller |-> "null"]

GroupClose == [token |-> "close", method |-> "none", path |-> "none", controller |-> "null"]

Semicolon == [token |-> "semicolon", method |-> "none", path |-> "none", controller |-> "null"]

\* the position of the first token from `from` on that satisfies Test, 0 for none
TokenSearch(content, from, Test(_)) ==
    LET hits == {i \in from..Len(content) : Test(content[i])}
    IN  IF hits = {} THEN 0 ELSE CHOOSE i \in hits : \A j \in hits : i <= j

\* Route::(get|post|put|patch|delete|resource|group)\(
StartsRoute(tok) == tok.token \in {"route", "group"}

IsSemicolon(tok) == tok.token = "semicolon"

\* content.match(/Route::(get|...|group)\([^;]+;/g): the matches from
\* position `from` on; each runs from a Route:: call to the next ";" and the
\* search resumes behind it
RECURSIVE RouteMatches(_, _)
RouteMatches(content, from) ==
    LET start == TokenSearch(content, from, StartsRoute)
        end == IF start = 0 THEN 0 ELSE TokenSearch(content, start + 1, IsSemicolon)
    IN  IF end = 0 THEN <<>>
        ELSE <<SubSeq(content, start, end)>> \o RouteMatches(content, end + 1)

HasPathLiteral(tok) == tok.token = "route"

NamesController(tok) == tok.controller # "null"

parseRouteDefinition(routeStr) ==
    LET methodMatch == TokenSearch(routeStr, 1, StartsRoute)
        method == IF methodMatch # 0 THEN routeStr[methodMatch].method ELSE "unknown"
        pathMatch == TokenSearch(routeStr, 1, HasPathLiteral)
        controllerMatch == TokenSearch(routeStr, 1, NamesController)
    IN  [method     |-> method,
         path       |-> IF pathMatch # 0 THEN routeStr[pathMatch].path ELSE "unknown",
         controller |-> IF controllerMatch # 0 THEN routeStr[controllerMatch].controller
                        ELSE "null",
         definition |-> routeStr,
         type       |-> IF method = "resource" THEN "resource"
                        ELSE IF method = "group" THEN "group" ELSE "single"]

parsePhpRoutes(content) ==
    LET routeMatches == RouteMatches(content, 1)
    IN  [k \in 1..Len(routeMatches) |-> parseRouteDefinition(routeMatches[k])]

(***************************************************************************)
(* Specification of the route extraction: one parsePhpRoutes call on a     *)
(* routes file of route statements and groups of route statements          *)
(***************************************************************************)
RECURSIVE Flatten(_)
Flatten(seqs) == IF seqs = <<>> THEN <<>> ELSE Head(seqs) \o Flatten(Tail(seqs))

\* Route::get('/users', 'UserController@index'); and
\* Route::resource('/photos', PhotoController::class);
RouteStatements ==
    {<<RouteCall("get", "/users", "UserController@index"), Semicolon>>,
     <<RouteCall("resource", "/photos", "null"), Semicolon>>}

\* Route::group([...], function () { <route statements> });
GroupStatements ==
    {<<GroupOpen>> \o Flatten(inner) \o <<GroupClose, Semicolon>> :
        inner \in SeqsUpTo(RouteStatements, MaxRoutes)}

RouteContents ==
    {Flatten(statements) :
        statements \in SeqsUpTo(RouteStatements \cup GroupStatements, MaxRoutes)}

InitRoutes ==
    /\ routeContent \in RouteContents
    /\ routes = NoResult
    /\ migrations = [exists |-> FALSE, files |-> <<>>]
    /\ tableInfo = NoResult
    /\ tables = NoResult
    /\ WorkflowIdle
    /\ DetectorIdle
    /\ AdvisorIdle
    /\ GeneratorIdle
    /\ RaceIdle
    /\ ScanIdle

ParsePhpRoutes ==
    /\ routes = NoResult
    /\ routes' = Return(parsePhpRoutes(routeContent))
    /\ UNCHANGED <<routeContent, migrations, tableInfo, tables, workflow, detectVars,
                   advisorVars, sources, clock, diskVars, callVars, raceVars, scanVars>>

NextRoutes == ParsePhpRoutes

SpecRoutes == InitRoutes /\ [][NextRoutes]_vars

(***************************************************************************)
(* Claims about the route extraction                                       *)
(***************************************************************************)
RoutesParsed == routes # NoResult

\* the route statements of the text, verb, resource and group ones, in
\* textual order
RouteStatementsOf(content) == SelectSeq(content, StartsRoute)

\* C22: route extraction yields one RouteDef for every route statement of the
\* text (verb, resource or group), whatever its nesting: a group statement
\* and each route inside it have their own RouteDef, and the path of a nested
\* route is its own literal.
C22_Original ==
    RoutesParsed =>
      LET statements == RouteStatementsOf(routeContent)
      IN  /\ Len(routes.value) = Len(statements)
          /\ \A k \in 1..Len(statements) :
                /\ routes.value[k].method = statements[k].method
                /\ statements[k].token = "route" =>
                      routes.value[k].path = statements[k].path

(***************************************************************************)
(* Enhanced task-completion workflow:                                      *)
(* simulateEnhancedTaskCompletionWorkflow, run by runEnhancedDemo for      *)
(* three tasks in a row or once by the test-generation command.            *)
(*                                                                         *)
(* workflow.pc is the step the function is about to run; queue holds the   *)
(* task being handled and the ones after it; console holds the status      *)
(* lines printed by the last step.                                         *)
(***************************************************************************)
Task(taskId, type, files) == [taskId |-> taskId, taskType |-> type, changedFiles |-> files]

\* the three calls of runEnhancedDemo
DemoTasks ==
    << Task("task-15", "migration",
            << <<"database", "migrations", "2024_01_01_create_x.php">> >>),
       Task("task-16", "controller",
            << <<"app", "Http", "Controllers", "UserController.php">> >>),
       Task("task-17", "model", << <<"app", "Models", "User.php">> >>) >>

\* arguments of the test-generation command
CommandTasks ==
    {Task("task-1", "model", << <<"app", "Models", "User.php">> >>),
     Task("task-2", "other", <<>>),
     Task("task-3", "service", << <<"README.md">> >>)}

TaskIds == {"task-1", "task-2", "task-3", "task-15", "task-16", "task-17"}

\* file.includes('<dir>/')
Includes(file, dirs) == PatternTest([dirs |-> dirs, last |-> ""], file)

\* the else-if chain over one changed file: the target of its test, if any
FileTestTypes(file) ==
    IF Includes(file, <<"app", "Models">>) THEN <<"model">>
    ELSE IF Includes(file, <<"app", "Http", "Controllers">>) THEN <<"controller">>
    ELSE IF Includes(file, <<"app", "Services">>) THEN <<"service">>
    ELSE IF Includes(file, <<"database", "migrations">>) THEN <<"migration">>
    ELSE <<>>

\* switch (taskType)
TaskTestTypes(type) ==
    IF type = "migration" THEN <<"database">>
    ELSE IF type = "controller" THEN <<"api">>
    ELSE IF type = "model" THEN <<"model">>
    ELSE <<>>

\* the targets of the tests to generate
analyzeTestRequirements(type, files) ==
    Flatten([i \in 1..Len(files) |-> FileTestTypes(files[i])]) \o TaskTestTypes(type)

\* generateTestsForTask when createTestFile succeeds for the test types in
\* `created` and returns null for the others
generateTestsForTask(task, created) ==
    LET testTypes == analyzeTestRequirements(task.taskType, task.changedFiles)
        generatedTests == SelectSeq([i \in 1..Len(testTypes) |->
                                        IF i \in created THEN testTypes[i] ELSE "null"],
                                    LAMBDA t : t # "null")
    IN  [success |-> Len(generatedTests) > 0, testFiles |-> generatedTests]

\* parseTestResults: success = exitCode === 0
parseTestResults(exitCode) == [success |-> exitCode = 0]

\* the locals of a workflow call that has just begun
Begin(queue, console) ==
    [pc |-> "checkUpdate", queue |-> queue, data |-> NoResult,
     testResult |-> NoResult, runResult |-> NoResult, console |-> console]

\* a throw leaves the workflow; runEnhancedDemo and main catch it and call
\* process.exit(1)
Exit(w, error) == [w EXCEPT !.pc = "exited", !.console = Append(@, [taskId |-> "none", line |-> error])]

\* Step 1: callMCPTool('auto_update_check'). The call settles: it resolves
\* with a payload, or rejects (timeout, exit without response, unparsable
\* response), and a payload that is no JSON makes JSON.parse throw.
CheckUpdate ==
    /\ workflow # NoResult
    /\ workflow.pc = "checkUpdate"
    /\ \/ \E updateNeeded \in BOOLEAN :
            workflow' = [workflow EXCEPT
                           !.data = [updateNeeded |-> updateNeeded],
                           !.pc = IF updateNeeded THEN "generateSchemas" ELSE "generateTests"]
       \/ workflow' = Exit(workflow, "MCP call failed")
    /\ UNCHANGED <<parseVars, detectVars, advisorVars, sources, clock, diskVars, callVars,
                   raceVars, scanVars>>

\* Step 2: callMCPTool('generate_schemas'), skipped or not
GenerateSchemas ==
    /\ workflow # NoResult
    /\ workflow.pc = "generateSchemas"
    /\ \/ workflow' = [workflow EXCEPT !.pc = "generateTests"]
       \/ workflow' = Exit(workflow, "MCP call failed")
    /\ UNCHANGED <<parseVars, detectVars, advisorVars, sources, clock, diskVars, callVars,
                   raceVars, scanVars>>

\* Step 3: const testResult = await this.generateTestsForTask(...)
GenerateTests ==
    /\ workflow # NoResult
    /\ workflow.pc = "generateTests"
    /\ LET task == Head(workflow.queue)
           testTypes == analyzeTestRequirements(task.taskType, task.changedFiles)
       IN  \E created \in SUBSET (1..Len(testTypes)) :
              LET testResult == generateTestsForTask(task, created)
              IN  workflow' = [workflow EXCEPT
                                 !.testResult = testResult,
                                 !.pc = IF testResult.success THEN "runTests"
                                        ELSE "updateStatus"]
    /\ UNCHANGED <<parseVars, detectVars, advisorVars, sources, clock, diskVars, callVars,
                   raceVars, scanVars>>

\* Step 4, inside `if (testResult.success) {`:
\* const runResult = await this.runTests(testResult.testFiles)
RunTests ==
    /\ workflow # NoResult
    /\ workflow.pc = "runTests"
    /\ \E exitCode \in {0, 1} :
          workflow' = [workflow EXCEPT !.runResult = parseTestResults(exitCode),
                                       !.pc = "updateStatus"]
    /\ UNCHANGED <<parseVars, detectVars, advisorVars, sources, clock, diskVars, callVars,
                   raceVars, scanVars>>

\* testResult.success && runResult.success, evaluated after the block that
\* declared runResult has been left: when the left operand is true the
\* right one is a reference to a name that is not in scope
StatusCondition(w) ==
    IF ~w.testResult.success THEN Return(FALSE)
    ELSE Throw("ReferenceError: runResult is not defined")

\* Step 5: the status line, then the return to the caller, which starts the
\* next workflow or is done
UpdateStatus ==
    /\ workflow # NoResult
    /\ workflow.pc = "updateStatus"
    /\ LET condition == StatusCondition(workflow)
           task == Head(workflow.queue)
       IN  IF condition.threw
           THEN workflow' = Exit(workflow, condition.message)
           ELSE LET line == IF condition.value THEN "ready to be marked done"
                            ELSE "cannot be marked done"
                    console == Append(workflow.console,
                                      [taskId |-> task.taskId, line |-> line])
                IN  workflow' =
                      IF Tail(workflow.queue) = <<>>
                      THEN [workflow EXCEPT !.pc = "completed", !.queue = <<>>,
                                            !.console = console]
                      ELSE Begin(Tail(workflow.queue), console)
    /\ UNCHANGED <<parseVars, detectVars, advisorVars, sources, clock, diskVars, callVars,
                   raceVars, scanVars>>

InitWorkflow ==
    /\ workflow \in {Begin(DemoTasks, <<>>)} \cup {Begin(<<t>>, <<>>) : t \in CommandTasks}
    /\ ParseIdle
    /\ DetectorIdle
    /\ AdvisorIdle
    /\ GeneratorIdle
    /\ RaceIdle
    /\ ScanIdle

NextWorkflow ==
    \/ CheckUpdate
    \/ GenerateSchemas
    \/ GenerateTests
    \/ RunTests
    \/ UpdateStatus

SpecWorkflow == InitWorkflow /\ [][NextWorkflow]_vars

\* every awaited call settles (callMCPTool has its own timeout, the test
\* process closes), so the function always takes its next step
SpecWorkflowLive == SpecWorkflow /\ WF_vars(NextWorkflow)

(***************************************************************************)
(* Claims about the task-completion workflow                               *)
(***************************************************************************)
\* the workflow of task `id` stands at the status step
AtStatusStep(id) ==
    /\ workflow.pc = "updateStatus"
    /\ Head(workflow.queue).taskId = id

\* test generation succeeded and the test run passed
TestsPassed ==
    /\ workflow.testResult # NoResult
    /\ workflow.testResult.success
    /\ workflow.runResult # NoResult
    /\ workflow.runResult.success

Reported(id, line) ==
    \E k \in 1..Len(workflow.console) : workflow.console[k] = [taskId |-> id, line |-> line]

\* the step prints the ready line
ReadyLineAdded ==
    /\ Len(workflow'.console) = Len(workflow.console) + 1
    /\ workflow'.console[Len(workflow'.console)].line = "ready to be marked done"

\* C30: the workflow of every task goes on to its status step and reports
\* there "ready to be marked done" exactly when test generation succeeded and
\* the test run passed, and "cannot be marked done" otherwise; it never
\* reports ready before the test run has finished or when it failed.
C30_Original ==
    /\ \A id \in TaskIds :
          /\ (AtStatusStep(id) /\ TestsPassed) ~> Reported(id, "ready to be marked done")
          /\ (AtStatusStep(id) /\ ~TestsPassed) ~> Reported(id, "cannot be marked done")
    /\ [][ReadyLineAdded => (workflow.pc = "updateStatus" /\ TestsPassed)]_vars

\* the state the failing behaviour ends in: the tests of a task were generated
\* and passed, and the process has exited on the ReferenceError without a
\* status line for the task
C30_ExitedAfterPass ==
    /\ workflow.pc = "exited"
    /\ TestsPassed
    /\ ~Reported(Head(workflow.queue).taskId, "ready to be marked done")
    /\ ~Reported(Head(workflow.queue).taskId, "cannot be marked done")

=============================================================================
